---------------------------- MODULE Spec2Model ----------------------------
(***************************************************************************)
(* Model of the job filtering and skill matching engine.                   *)
(*                                                                         *)
(* Python strings are sequences of one-character strings, so that          *)
(* lowercasing, splitting, substring search and the salary regular         *)
(* expression are computed character by character as the code does.        *)
(* Python dicts with optional keys are functions whose DOMAIN holds the    *)
(* keys that are present.  Floats that are quotients of small integers are *)
(* kept as exact fractions [num, den].                                     *)
(***************************************************************************)
EXTENDS Integers, Sequences, FiniteSets, TLC

VARIABLES
    pc,               \* position of the caller: "start", "ready", "failed", "done", "call", "ret"
    environ,          \* os.environ, restricted to the keys load_config reads
    min_salary,       \* JobFilter.min_salary
    target_location,  \* JobFilter.target_location
    resume_text,      \* argument of filter_jobs
    jobs,             \* the batch passed to filter_jobs; its postings are mutated in place
    jobs_in,          \* the batch as it was when filter_jobs was called
    filtered_jobs,    \* the list filter_jobs returned
    keyword_calls,    \* number of calls of _extract_keywords_from_text
    raised,           \* name of the exception that escaped the last call, or "none"
    args,             \* arguments of a helper called on its own
    ret               \* its return value

vars == <<pc, environ, min_salary, target_location, resume_text, jobs, jobs_in,
          filtered_jobs, keyword_calls, raised, args, ret>>

None == "None"

-----------------------------------------------------------------------------
(* Characters and strings                                                  *)

Digits == {"0", "1", "2", "3", "4", "5", "6", "7", "8", "9"}

DigitSeq == <<"0", "1", "2", "3", "4", "5", "6", "7", "8", "9">>

DigitVal(c) == (CHOOSE n \in 1..10 : DigitSeq[n] = c) - 1

Whitespace == {" ", "\n", "\t"}

\* string.punctuation (the grave accent, which no modelled text holds, is left out)
Punctuation ==
    {"!", "\"", "#", "$", "%", "&", "'", "(", ")", "*", "+", ",", "-", ".", "/",
     ":", ";", "<", "=", ">", "?", "@", "[", "\\", "]", "^", "_", "{", "|",
     "}", "~"}

UpperToLower ==
    [A |-> "a", B |-> "b", C |-> "c", D |-> "d", E |-> "e", F |-> "f", G |-> "g",
     H |-> "h", I |-> "i", J |-> "j", K |-> "k", L |-> "l", M |-> "m", N |-> "n",
     O |-> "o", P |-> "p", Q |-> "q", R |-> "r", S |-> "s", T |-> "t", U |-> "u",
     V |-> "v", W |-> "w", X |-> "x", Y |-> "y", Z |-> "z"]

Letters == DOMAIN UpperToLower \cup {UpperToLower[c] : c \in DOMAIN UpperToLower}

LowerChar(c) == IF c \in DOMAIN UpperToLower THEN UpperToLower[c] ELSE c

\* str.lower()
Lower(s) == [i \in 1..Len(s) |-> LowerChar(s[i])]

\* the Python string a character sequence stands for
RECURSIVE Join(_)
Join(s) == IF s = <<>> THEN "" ELSE s[1] \o Join(Tail(s))

\* a in b, for strings
IsSubstr(a, b) ==
    \E i \in 0..(Len(b) - Len(a)) : \A k \in 1..Len(a) : b[i + k] = a[k]

Min(a, b) == IF a <= b THEN a ELSE b

Max(a, b) == IF a >= b THEN a ELSE b

\* the set of elements of a list
Range(l) == {l[i] : i \in 1..Len(l)}

\* x in l, for lists
InSeq(x, l) == \E i \in 1..Len(l) : l[i] = x

\* str.replace(old, new) for single characters
ReplaceChar(s, old, new) == [i \in 1..Len(s) |-> IF s[i] = old THEN new ELSE s[i]]

\* the characters of s that are not in drop, in order
RemoveChars(s, drop) ==
    LET Kept(c) == c \notin drop
    IN  SelectSeq(s, Kept)

\* str.split(): the maximal runs of non-whitespace characters, from position i on
RECURSIVE SplitFrom(_, _)
SplitFrom(s, i) ==
    LET starts == {j \in i..Len(s) : s[j] \notin Whitespace}
    IN  IF starts = {} THEN <<>>
        ELSE LET first == CHOOSE j \in starts : \A k \in i..(j - 1) : s[k] \in Whitespace
                 stops == {j \in first..Len(s) : s[j] \in Whitespace}
                 last == IF stops = {} THEN Len(s)
                         ELSE (CHOOSE j \in stops :
                                   \A k \in first..(j - 1) : s[k] \notin Whitespace) - 1
             IN  <<SubSeq(s, first, last)>> \o SplitFrom(s, last + 1)

Split(s) == SplitFrom(s, 1)

\* value of a string of decimal digits
RECURSIVE ToInt(_)
ToInt(ds) ==
    IF ds = <<>> THEN 0
    ELSE 10 * ToInt(SubSeq(ds, 1, Len(ds) - 1)) + DigitVal(ds[Len(ds)])

RECURSIVE Pow10(_)
Pow10(k) == IF k = 0 THEN 1 ELSE 10 * Pow10(k - 1)

-----------------------------------------------------------------------------
(* Configuration: app/utils/config.py and JobFilter.__init__               *)

\* the defaults of load_config
DefaultPayGradeMin == <<"7", "0", "0", "0", "0">>

DefaultLocation == <<"N", "e", "w", " ", "Y", "o", "r", "k", ",", " ", "N", "Y">>

\* os.environ.get(key, default)
EnvironGet(env, key, default) == IF key \in DOMAIN env THEN env[key] ELSE default

\* load_config(), the two entries JobFilter reads
load_config(env) ==
    [TARGET_PAY_GRADE_MIN |-> EnvironGet(env, "TARGET_PAY_GRADE_MIN", DefaultPayGradeMin),
     TARGET_LOCATION |-> EnvironGet(env, "TARGET_LOCATION", DefaultLocation)]

\* s.strip()
RECURSIVE LStrip(_)
LStrip(s) == IF s # <<>> /\ s[1] \in Whitespace THEN LStrip(Tail(s)) ELSE s

RECURSIVE RStrip(_)
RStrip(s) ==
    IF s # <<>> /\ s[Len(s)] \in Whitespace THEN RStrip(SubSeq(s, 1, Len(s) - 1)) ELSE s

Strip(s) == LStrip(RStrip(s))

\* the digits of a decimal literal: digits, single underscores only between digits
DecimalDigitsOk(s) ==
    /\ s # <<>>
    /\ \A i \in 1..Len(s) : s[i] \in Digits \cup {"_"}
    /\ s[1] # "_" /\ s[Len(s)] # "_"
    /\ \A i \in 1..(Len(s) - 1) : ~(s[i] = "_" /\ s[i + 1] = "_")

\* int(s) for a string s: [ok |-> FALSE] stands for ValueError
ParseInt(s) ==
    LET t == Strip(s)
        signed == t # <<>> /\ t[1] \in {"+", "-"}
        body == IF signed THEN Tail(t) ELSE t
        magnitude == ToInt(RemoveChars(body, {"_"}))
    IN  IF DecimalDigitsOk(body)
        THEN [ok |-> TRUE, value |-> IF signed /\ t[1] = "-" THEN 0 - magnitude ELSE magnitude]
        ELSE [ok |-> FALSE, value |-> 0]

\* JobFilter.__init__: the fields of the new object, or the exception raised
JobFilter_init(env) ==
    LET config == load_config(env)
        parsed == ParseInt(config.TARGET_PAY_GRADE_MIN)
    IN  IF parsed.ok
        THEN [raised |-> "none", min_salary |-> parsed.value,
              target_location |-> config.TARGET_LOCATION]
        ELSE [raised |-> "ValueError", min_salary |-> None, target_location |-> None]

-----------------------------------------------------------------------------
(* JobFilter._extract_keywords_from_text                                    *)

StopWords ==
    {"a", "an", "the", "and", "or", "but", "is", "are", "was", "were", "be", "been", "being",
     "in", "on", "at", "by", "for", "with", "about", "against", "between", "into", "through",
     "during", "before", "after", "above", "below", "to", "from", "up", "down", "of", "off",
     "over", "under", "again", "further", "then", "once", "here", "there", "when", "where",
     "why", "how", "all", "any", "both", "each", "few", "more", "most", "some", "such", "no",
     "nor", "not", "only", "own", "same", "so", "than", "too", "very", "s", "t", "can", "will",
     "just", "don", "should", "now", "i", "me", "my", "myself", "we", "our", "ours", "ourselves",
     "you", "your", "yours", "yourself", "yourselves", "he", "him", "his", "himself", "she",
     "her", "hers", "herself", "it", "its", "itself", "they", "them", "their", "theirs",
     "themselves", "what", "which", "who", "whom", "this", "that", "these", "those", "am",
     "have", "has", "had", "having", "do", "does", "did", "doing", "would", "could",
     "might", "must", "much", "many"}

\* default of the max_keywords parameter
DefaultMaxKeywords == 30

\* [word for word in words if word not in stop_words and len(word) > 2]
RECURSIVE FilterWords(_)
FilterWords(words) ==
    IF words = <<>> THEN <<>>
    ELSE IF Join(words[1]) \notin StopWords /\ Len(words[1]) > 2
         THEN <<words[1]>> \o FilterWords(Tail(words))
         ELSE FilterWords(Tail(words))

\* Counter(words)[w]
CountOf(w, words) == Cardinality({i \in 1..Len(words) : words[i] = w})

\* the keys of Counter(words), in insertion order
RECURSIVE CounterKeys(_, _)
CounterKeys(words, seen) ==
    IF words = <<>> THEN seen
    ELSE CounterKeys(Tail(words), IF InSeq(words[1], seen) THEN seen ELSE Append(seen, words[1]))

\* the first n keys in insertion order, whatever their counts
MostCommonFirstSeen(keys, words, n) == SubSeq(keys, 1, IF n <= Len(keys) THEN n ELSE Len(keys))

\* Counter.most_common(n): by decreasing count, equal counts in insertion order
RECURSIVE MostCommon(_, _, _)
MostCommon(keys, words, n) ==
    IF n <= 0 \/ keys = <<>> THEN <<>>
    ELSE LET best == CHOOSE i \in 1..Len(keys) :
                        /\ \A j \in 1..Len(keys) : CountOf(keys[j], words) <= CountOf(keys[i], words)
                        /\ \A j \in 1..(i - 1) : CountOf(keys[j], words) < CountOf(keys[i], words)
             rest == [j \in 1..(Len(keys) - 1) |-> IF j < best THEN keys[j] ELSE keys[j + 1]]
         IN  <<keys[best]>> \o MostCommon(rest, words, n - 1)

extract_keywords_from_text(text, max_keywords) ==
    LET words == Split(RemoveChars(Lower(text), Punctuation))
        filtered_words == FilterWords(words)
    IN  MostCommon(CounterKeys(filtered_words, <<>>), filtered_words, max_keywords)

-----------------------------------------------------------------------------
(* JobFilter._calculate_keyword_match                                       *)

\* the float a / b as an exact fraction; Python raises ZeroDivisionError for b = 0
ZeroDivisionError == [raised |-> "ZeroDivisionError", num |-> 0, den |-> 0]

Fraction(a, b) == IF b = 0 THEN ZeroDivisionError ELSE [raised |-> "none", num |-> a, den |-> b]

\* sum(1 for keyword in keywords if keyword in job_description)
RECURSIVE CountMatches(_, _)
CountMatches(keywords, job_description) ==
    IF keywords = <<>> THEN 0
    ELSE (IF IsSubstr(keywords[1], job_description) THEN 1 ELSE 0)
         + CountMatches(Tail(keywords), job_description)

\* the function comparing without lowercasing the description
calculate_keyword_match_case_sensitive(keywords, job_description) ==
    IF keywords = <<>> \/ job_description = <<>> THEN Fraction(0, 1)
    ELSE Fraction(CountMatches(keywords, job_description), Len(keywords))

\* the function without its guard against an empty keyword list
calculate_keyword_match_unguarded(keywords, job_description) ==
    Fraction(CountMatches(keywords, Lower(job_description)), Len(keywords))

calculate_keyword_match(keywords, job_description) ==
    IF keywords = <<>> \/ job_description = <<>> THEN Fraction(0, 1)
    ELSE Fraction(CountMatches(keywords, Lower(job_description)), Len(keywords))

\* score > p / q, for a score that is a fraction with den > 0
ScoreAbove(score, p, q) == score.num * q > p * score.den

\* int(keyword_score * 100)
ScorePercent(score) == (score.num * 100) \div score.den

-----------------------------------------------------------------------------
(* JobFilter._check_salary_match                                            *)

\* values below this are taken to be hourly rates
HourlyBelow == 1000

HoursPerWeek == 40

WeeksPerYear == 52

\* how many of the characters s[i], s[i+1], ... are digits, up to max of them
RECURSIVE DigitRun(_, _, _)
DigitRun(s, i, max) ==
    IF max = 0 \/ i > Len(s) THEN 0
    ELSE IF s[i] \notin Digits THEN 0
    ELSE 1 + DigitRun(s, i + 1, max - 1)

\* (?:,\d{3})* from position i: the position after the last group it takes
RECURSIVE AfterCommaGroups(_, _)
AfterCommaGroups(s, i) ==
    IF i <= Len(s) /\ s[i] = "," /\ DigitRun(s, i + 1, 3) = 3
    THEN AfterCommaGroups(s, i + 4)
    ELSE i

\* (?:\.\d+)? from position i: the position after it
AfterFraction(s, i) ==
    IF i <= Len(s) /\ s[i] = "." /\ DigitRun(s, i + 1, Len(s)) >= 1
    THEN i + 1 + DigitRun(s, i + 1, Len(s))
    ELSE i

NoMatch == [from |-> 0, to |-> 0]

\* \$?(\d{1,3}(?:,\d{3})*(?:\.\d+)?) tried at position i: the span of the group
SalaryMatchAt(s, i) ==
    LET j == IF s[i] = "$" THEN i + 1 ELSE i
        n == DigitRun(s, j, 3)
    IN  IF n = 0 THEN NoMatch
        ELSE [from |-> j, to |-> AfterFraction(s, AfterCommaGroups(s, j + n)) - 1]

\* re.findall of the salary pattern: the groups of the leftmost non-overlapping matches
RECURSIVE SalaryFindAll(_, _)
SalaryFindAll(s, i) ==
    IF i > Len(s) THEN <<>>
    ELSE LET m == SalaryMatchAt(s, i)
         IN  IF m = NoMatch THEN SalaryFindAll(s, i + 1)
             ELSE <<SubSeq(s, m.from, m.to)>> \o SalaryFindAll(s, m.to + 1)

\* position of the first "." of s, or Len(s) + 1
RECURSIVE DotAt(_, _)
DotAt(s, i) == IF i > Len(s) \/ s[i] = "." THEN i ELSE DotAt(s, i + 1)

\* float(num) for digits with an optional fraction, as an exact fraction
ParseFloat(num) ==
    LET d == DotAt(num, 1)
        whole == SubSeq(num, 1, d - 1)
        frac == SubSeq(num, d + 1, Len(num))
    IN  [num |-> ToInt(whole) * Pow10(Len(frac)) + ToInt(frac), den |-> Pow10(Len(frac))]

\* the annual value the loop appends for one extracted number
SalaryValue(num) ==
    LET value == ParseFloat(RemoveChars(num, {","}))
    IN  IF value.num < HourlyBelow * value.den
        THEN [num |-> value.num * HoursPerWeek * WeeksPerYear, den |-> value.den]
        ELSE value

check_salary_match(salary_text, minimum) ==
    IF salary_text = <<>> THEN FALSE
    ELSE LET salary_numbers == SalaryFindAll(salary_text, 1)
         IN  \E k \in 1..Len(salary_numbers) :
                LET salary == SalaryValue(salary_numbers[k])
                IN  salary.num >= minimum * salary.den

-----------------------------------------------------------------------------
(* JobFilter._check_location_match                                          *)

\* the function without its substring test
check_location_match_components_only(job_location, target) ==
    IF job_location = <<>> \/ target = <<>> THEN FALSE
    ELSE LET job_components == Split(ReplaceChar(Lower(job_location), ",", " "))
             target_components == Split(ReplaceChar(Lower(target), ",", " "))
         IN  \E k \in 1..Len(target_components) :
                InSeq(target_components[k], job_components)

check_location_match(job_location, target) ==
    IF job_location = <<>> \/ target = <<>> THEN FALSE
    ELSE LET job_loc == Lower(job_location)
             target_loc == Lower(target)
             job_components == Split(ReplaceChar(job_loc, ",", " "))
             target_components == Split(ReplaceChar(target_loc, ",", " "))
         IN  \/ \E k \in 1..Len(target_components) :
                    InSeq(target_components[k], job_components)
             \/ IsSubstr(target_loc, job_loc)
             \/ IsSubstr(job_loc, target_loc)

-----------------------------------------------------------------------------
(* JobFilter.filter_jobs                                                    *)

\* 'key' in job and job['key']
Has(job, key) == key \in DOMAIN job /\ job[key] # <<>>

KeywordReason(score) == "Keyword match: " \o ToString(ScorePercent(score)) \o "%"

SalaryReason == "Salary meets minimum requirement"

LocationReason == "Location match"

\* the keyword score of the posting's description (lines 55-56), 0 without one
KeywordScoreOf(job, resume_keywords) ==
    IF Has(job, "description")
    THEN calculate_keyword_match(resume_keywords, job.description)
    ELSE Fraction(0, 1)

\* a keyword criterion that gives no point to a strong match
KeywordPointUpToHalf(job, resume_keywords) ==
    /\ Has(job, "description")
    /\ ScoreAbove(KeywordScoreOf(job, resume_keywords), 2, 10)
    /\ ~ScoreAbove(KeywordScoreOf(job, resume_keywords), 5, 10)

\* the three criteria (lines 54-73)
KeywordPoint(job, resume_keywords) ==
    Has(job, "description") /\ ScoreAbove(KeywordScoreOf(job, resume_keywords), 2, 10)

SalaryPoint(job, minimum) == Has(job, "salary") /\ check_salary_match(job.salary, minimum)

LocationPoint(job, target) ==
    Has(job, "location") /\ check_location_match(job.location, target)

\* the acceptance test without the strong-match override
AcceptsByPointsOnly(match_score, job, resume_keywords) == match_score >= 2

\* the acceptance test (lines 77-78)
Accepts(match_score, job, resume_keywords) ==
    \/ match_score >= 2
    \/ Has(job, "description") /\ ScoreAbove(KeywordScoreOf(job, resume_keywords), 5, 10)

\* match_score with the location criterion assigning instead of adding
MatchScoreOverwritten(kw, sal, loc) ==
    IF loc THEN 1 ELSE (IF kw THEN 1 ELSE 0) + (IF sal THEN 1 ELSE 0)

\* match_score after the three criteria (lines 51, 58, 65, 72)
MatchScore(kw, sal, loc) ==
    (IF kw THEN 1 ELSE 0) + (IF sal THEN 1 ELSE 0) + (IF loc THEN 1 ELSE 0)

\* match_reasons after the three criteria (lines 52, 59, 66, 73)
MatchReasons(kw, sal, loc, score) ==
    (IF kw THEN <<KeywordReason(score)>> ELSE <<>>)
    \o (IF sal THEN <<SalaryReason>> ELSE <<>>)
    \o (IF loc THEN <<LocationReason>> ELSE <<>>)

\* the keyword criterion on its own (lines 51-59): the score, and the match_score and
\* match_reasons it leaves
KeywordCriterion(job, resume_keywords) ==
    LET score == KeywordScoreOf(job, resume_keywords)
        kw == KeywordPoint(job, resume_keywords)
    IN  [keyword_score |-> score, match_score |-> MatchScore(kw, FALSE, FALSE),
         match_reasons |-> MatchReasons(kw, FALSE, FALSE, score)]

\* filtered_jobs.insert(0, job)
PrependAccepted(accepted, job) == <<job>> \o accepted

\* filtered_jobs.append(job) (line 82)
AppendAccepted(accepted, job) == Append(accepted, job)

\* an annotation that also marks the posting's status
AnnotateAndMark(job, match_score, match_reasons) ==
    [filter_match_score |-> match_score, filter_match_reasons |-> match_reasons,
     status |-> "filtered"] @@ job

\* the annotation of an accepted posting (lines 80-81)
Annotate(job, match_score, match_reasons) ==
    [filter_match_score |-> match_score, filter_match_reasons |-> match_reasons] @@ job

\* one iteration of the loop over the batch (lines 49-82)
FilterOne(job, resume_keywords, minimum, target) ==
    LET score == KeywordScoreOf(job, resume_keywords)
    IN  IF score.raised # "none"
        THEN [raised |-> score.raised, accepted |-> FALSE, job |-> job]
        ELSE LET kw == KeywordPoint(job, resume_keywords)
                 sal == SalaryPoint(job, minimum)
                 loc == LocationPoint(job, target)
                 match_score == MatchScore(kw, sal, loc)
                 match_reasons == MatchReasons(kw, sal, loc, score)
                 accepted == Accepts(match_score, job, resume_keywords)
             IN  [raised |-> "none", accepted |-> accepted,
                  job |-> IF accepted THEN Annotate(job, match_score, match_reasons) ELSE job]

\* a loop that stops at the first posting it accepts
RECURSIVE FilterLoopFirstOnly(_, _, _, _, _, _)
FilterLoopFirstOnly(batch, i, accepted, resume_keywords, minimum, target) ==
    IF i > Len(batch) \/ accepted # <<>>
    THEN [raised |-> "none", jobs |-> batch, filtered_jobs |-> accepted]
    ELSE LET r == FilterOne(batch[i], resume_keywords, minimum, target)
         IN  IF r.raised # "none"
             THEN [raised |-> r.raised, jobs |-> batch, filtered_jobs |-> None]
             ELSE FilterLoopFirstOnly([batch EXCEPT ![i] = r.job], i + 1,
                                      IF r.accepted THEN AppendAccepted(accepted, r.job)
                                      ELSE accepted,
                                      resume_keywords, minimum, target)

\* the loop from posting i on: the batch as mutated so far, the accepted postings so far
RECURSIVE FilterLoop(_, _, _, _, _, _)
FilterLoop(batch, i, accepted, resume_keywords, minimum, target) ==
    IF i > Len(batch) THEN [raised |-> "none", jobs |-> batch, filtered_jobs |-> accepted]
    ELSE LET r == FilterOne(batch[i], resume_keywords, minimum, target)
         IN  IF r.raised # "none"
             THEN [raised |-> r.raised, jobs |-> batch, filtered_jobs |-> None]
             ELSE FilterLoop([batch EXCEPT ![i] = r.job], i + 1,
                             IF r.accepted THEN AppendAccepted(accepted, r.job) ELSE accepted,
                             resume_keywords, minimum, target)

\* filter_jobs(jobs, resume_text): the returned list, the batch after the call, the
\* exception that escaped, and the number of keyword extractions it ran
filter_jobs(batch, text, minimum, target) ==
    IF batch = <<>>
    THEN [raised |-> "none", jobs |-> batch, filtered_jobs |-> <<>>, keyword_calls |-> 0]
    ELSE LET resume_keywords == extract_keywords_from_text(text, DefaultMaxKeywords)
         IN  [keyword_calls |-> 1]
             @@ FilterLoop(batch, 1, <<>>, resume_keywords, minimum, target)

-----------------------------------------------------------------------------
(* Inputs                                                                   *)

\* longest batch passed to filter_jobs
MaxBatch == 2

\* marks a key that a posting or the environment does not have
Absent == <<"<absent>">>

ResumeTwo == <<"s", "q", "l", " ", "a", "w", "s">>

ResumeOne == <<"T", "h", "e", " ", "S", "Q", "L", ".">>

DescMySQL == <<"M", "y", "S", "Q", "L">>

SalaryHigh == <<"$", "8", "0", ",", "0", "0", "0">>

Salary45 == <<"$", "4", "5", ",", "0", "0", "0">>

Salary22 == <<"$", "2", "2", "/", "h", "r">>

LocationNY == <<"N", "e", "w", " ", "Y", "o", "r", "k", ",", " ", "N", "Y">>

LocationRemote == <<"R", "e", "m", "o", "t", "e">>

\* resume texts with no keyword, one keyword and two keywords: the description
\* "MySQL" then scores 0, 1/1 and 1/2
ResumeTexts == {<<>>, ResumeOne, ResumeTwo}

Descriptions == {Absent, <<>>, DescMySQL}

Salaries == {Absent, <<>>, SalaryHigh}

Locations == {Absent, <<>>, LocationNY}

\* a posting: id and status always, the other keys when given
MakeJob(id, status, description, salary, location) ==
    LET given == [description |-> description, salary |-> salary, location |-> location]
        keys == {k \in DOMAIN given : given[k] # Absent}
    IN  [k \in {"id", "status"} \cup keys |->
            IF k = "id" THEN id ELSE IF k = "status" THEN status ELSE given[k]]

\* the posting at position i of a batch, from its three optional texts
JobAt(i, body) ==
    MakeJob(100 + i, IF i % 2 = 1 THEN "new" ELSE "applied", body[1], body[2], body[3])

\* the optional texts of a posting: description, salary, location
JobBodies == Descriptions \X Salaries \X Locations

BatchOf(bodies) == [i \in 1..Len(bodies) |-> JobAt(i, bodies[i])]

\* an environment from the optional values of the two keys
MakeEnviron(pay, location) ==
    LET given == [TARGET_PAY_GRADE_MIN |-> pay, TARGET_LOCATION |-> location]
    IN  [k \in {k \in DOMAIN given : given[k] # Absent} |-> given[k]]

-----------------------------------------------------------------------------
(* The filter run: the caller holds a batch of postings and a resume text,  *)
(* builds a JobFilter and calls filter_jobs once                            *)

FilterEnvirons ==
    {MakeEnviron(Absent, Absent), MakeEnviron(<<"7", "0", "k">>, Absent)}

Init ==
    /\ pc = "start"
    /\ environ \in FilterEnvirons
    /\ min_salary = None
    /\ target_location = None
    /\ resume_text \in ResumeTexts
    /\ \E n \in 0..MaxBatch : \E bodies \in [1..n -> JobBodies] : jobs = BatchOf(bodies)
    /\ jobs_in = <<>>
    /\ filtered_jobs = <<>>
    /\ keyword_calls = 0
    /\ raised = "none"
    /\ args = None
    /\ ret = None

\* job_filter = JobFilter()
Construct ==
    /\ pc = "start"
    /\ LET r == JobFilter_init(environ)
       IN  /\ raised' = r.raised
           /\ min_salary' = r.min_salary
           /\ target_location' = r.target_location
           /\ pc' = IF r.raised = "none" THEN "ready" ELSE "failed"
    /\ UNCHANGED <<environ, resume_text, jobs, jobs_in, filtered_jobs, keyword_calls, args, ret>>

\* filtered_jobs = job_filter.filter_jobs(jobs, resume_text)
FilterJobs ==
    /\ pc = "ready"
    /\ LET r == filter_jobs(jobs, resume_text, min_salary, target_location)
       IN  /\ jobs_in' = jobs
           /\ jobs' = r.jobs
           /\ filtered_jobs' = r.filtered_jobs
           /\ keyword_calls' = keyword_calls + r.keyword_calls
           /\ raised' = r.raised
    /\ pc' = "done"
    /\ UNCHANGED <<environ, min_salary, target_location, resume_text, args, ret>>

Next == Construct \/ FilterJobs

Spec == Init /\ [][Next]_vars

-----------------------------------------------------------------------------
(* Properties of filter_jobs                                                *)

\* the call of filter_jobs has returned
Returned == pc = "done" /\ raised = "none"

\* the keyword set filter_jobs worked with
ResumeKeywords == extract_keywords_from_text(resume_text, DefaultMaxKeywords)

\* posting i of the batch, as passed in, is in the returned list
IsReturned(i) == \E k \in 1..Len(filtered_jobs) : filtered_jobs[k].id = jobs_in[i].id

\* the posting of the batch, as passed in, that a returned posting comes from
Original(job) == jobs_in[CHOOSE i \in 1..Len(jobs_in) : jobs_in[i].id = job.id]

\* keyword point + salary point + location point of a posting
TotalPoints(job) ==
    Cardinality({c \in {"keyword", "salary", "location"} :
        \/ c = "keyword" /\ KeywordPoint(job, ResumeKeywords)
        \/ c = "salary" /\ SalaryPoint(job, min_salary)
        \/ c = "location" /\ LocationPoint(job, target_location)})

\* C1: filter_jobs returns a posting if and only if its total points are >= 2 or
\* its keyword score alone is > 0.5; every other posting of the batch is left out.
C1_AcceptedIffPolicy ==
    Returned =>
        \A i \in 1..Len(jobs_in) :
            IsReturned(i) <=>
                \/ TotalPoints(jobs_in[i]) >= 2
                \/ ScoreAbove(KeywordScoreOf(jobs_in[i], ResumeKeywords), 5, 10)

\* a posting returned on the override alone, next to a rejected one
C1_Witness ==
    /\ Returned
    /\ \E i, j \in 1..Len(jobs_in) :
          /\ IsReturned(i) /\ TotalPoints(jobs_in[i]) = 1
          /\ ~IsReturned(j) /\ TotalPoints(jobs_in[j]) = 1

\* a is b with some elements left out: same relative order, nothing twice, nothing new
IsSubsequence(a, b) ==
    \E f \in [1..Len(a) -> 1..Len(b)] :
        /\ \A k \in 1..Len(a) : a[k] = b[f[k]]
        /\ \A k, l \in 1..Len(a) : k < l => f[k] < f[l]

\* C2: the list returned by filter_jobs is a subsequence of the input batch: the
\* accepted postings appear in the input's relative order, none duplicated, none invented.
C2_OrderPreserved ==
    Returned =>
        /\ IsSubsequence(filtered_jobs, jobs)
        /\ IsSubsequence([k \in 1..Len(filtered_jobs) |-> filtered_jobs[k].id],
                         [i \in 1..Len(jobs_in) |-> jobs_in[i].id])

\* two postings were accepted
C2_Witness == Returned /\ Len(filtered_jobs) >= 2

\* the reasons a posting earns, in the order keyword, salary, location
ExpectedReasons(job) ==
    (IF KeywordPoint(job, ResumeKeywords)
        THEN <<KeywordReason(KeywordScoreOf(job, ResumeKeywords))>> ELSE <<>>)
    \o (IF SalaryPoint(job, min_salary) THEN <<SalaryReason>> ELSE <<>>)
    \o (IF LocationPoint(job, target_location) THEN <<LocationReason>> ELSE <<>>)

\* C6: every returned posting carries filter_match_score in 0..3, the number of criteria
\* it satisfied, and filter_match_reasons with one reason per satisfied criterion in the
\* order keyword, salary, location, so that len(filter_match_reasons) = filter_match_score.
C6_ScoreAndReasons ==
    Returned =>
        \A k \in 1..Len(filtered_jobs) :
            LET job == filtered_jobs[k]
            IN  /\ {"filter_match_score", "filter_match_reasons"} \subseteq DOMAIN job
                /\ job.filter_match_score \in 0..3
                /\ job.filter_match_score = TotalPoints(Original(job))
                /\ job.filter_match_reasons = ExpectedReasons(Original(job))
                /\ Len(job.filter_match_reasons) = job.filter_match_score

\* a posting returned with all three reasons, and one returned with the location alone
\* of salary and location
C6_Witness ==
    /\ Returned
    /\ \E k, l \in 1..Len(filtered_jobs) :
          /\ Len(filtered_jobs[k].filter_match_reasons) = 3
          /\ filtered_jobs[l].filter_match_score = 2
          /\ filtered_jobs[l].filter_match_reasons[2] = LocationReason

Criteria == [description |-> "Keyword", salary |-> SalaryReason, location |-> LocationReason]

\* a reason of the criterion that reads the given key is among the reasons
HasReasonFor(key, reasons) ==
    \E n \in 1..Len(reasons) :
        IF key = "description"
        THEN reasons[n] \notin {SalaryReason, LocationReason}
        ELSE reasons[n] = Criteria[key]

\* C7: filter_jobs never raises for a batch whose description, salary and location are
\* each absent, empty or present; a missing or empty field contributes no point for its
\* criterion; an empty batch returns an empty list without running the keyword extraction.
C7_NeverRaises ==
    pc = "done" =>
        /\ raised = "none"
        /\ jobs_in = <<>> => filtered_jobs = <<>> /\ keyword_calls = 0
        /\ \A k \in 1..Len(filtered_jobs) :
              LET job == filtered_jobs[k]
                  given == {key \in DOMAIN Criteria : Has(Original(job), key)}
              IN  /\ job.filter_match_score <= Cardinality(given)
                  /\ \A key \in DOMAIN Criteria \ given :
                        ~HasReasonFor(key, job.filter_match_reasons)

\* a run with no resume keywords over a posting with a description, and a returned
\* posting whose description is absent
C7_Witness ==
    /\ pc = "done"
    /\ ResumeKeywords = <<>>
    /\ \E i \in 1..Len(jobs_in) : Has(jobs_in[i], "description")
    /\ \E k \in 1..Len(filtered_jobs) : "description" \notin DOMAIN filtered_jobs[k]

Annotations == {"filter_match_score", "filter_match_reasons"}

\* C8: filter_jobs changes no field of any posting other than setting filter_match_score
\* and filter_match_reasons on the postings it accepts; id, status and every other field
\* keep their values, and a rejected posting is left exactly as it was passed in.
C8_FrameOfPostings ==
    Returned =>
        /\ Len(jobs) = Len(jobs_in)
        /\ \A i \in 1..Len(jobs_in) :
              /\ IsReturned(i) =>
                    /\ DOMAIN jobs[i] = DOMAIN jobs_in[i] \cup Annotations
                    /\ \A key \in DOMAIN jobs_in[i] : jobs[i][key] = jobs_in[i][key]
              /\ ~IsReturned(i) => jobs[i] = jobs_in[i]
        /\ \A k \in 1..Len(filtered_jobs) :
              \A key \in DOMAIN Original(filtered_jobs[k]) :
                  filtered_jobs[k][key] = Original(filtered_jobs[k])[key]

\* one posting was annotated and another left alone
C8_Witness ==
    /\ Returned
    /\ \E i, j \in 1..Len(jobs_in) : jobs[i] # jobs_in[i] /\ ~IsReturned(j)

\* filter_jobs on a batch with the resume and the criteria of the state: what it returns
\* and what it makes of the batch
FilteredOf(batch) ==
    filter_jobs(batch, resume_text, min_salary, target_location).filtered_jobs

BatchAfter(batch) == filter_jobs(batch, resume_text, min_salary, target_location).jobs

\* the batch in the opposite order
Reversed(batch) == [i \in 1..Len(batch) |-> batch[Len(batch) + 1 - i]]

\* C28: filter_jobs decides each posting independently: whether a posting is accepted and
\* which annotations it gets depend only on that posting's description, salary and
\* location, the resume keyword set and the criteria, not on the other postings or on the
\* order of processing; hence for non-empty batches A and B, filter_jobs(A ++ B) equals
\* filter_jobs(A) ++ filter_jobs(B).
C28_PostingsIndependent ==
    Returned /\ jobs_in # <<>> =>
        /\ \A i \in 1..Len(jobs_in) :
              /\ IsReturned(i) <=> FilteredOf(<<jobs_in[i]>>) # <<>>
              /\ jobs[i] = BatchAfter(<<jobs_in[i]>>)[1]
        /\ \A k \in 1..(Len(jobs_in) - 1) :
              filtered_jobs = FilteredOf(SubSeq(jobs_in, 1, k))
                              \o FilteredOf(SubSeq(jobs_in, k + 1, Len(jobs_in)))
        /\ FilteredOf(Reversed(jobs_in)) = Reversed(filtered_jobs)

\* a batch of two postings, both accepted, with different annotations
C28_Witness ==
    /\ Returned
    /\ Len(jobs_in) = 2
    /\ Len(filtered_jobs) = 2
    /\ filtered_jobs[1].filter_match_score # filtered_jobs[2].filter_match_score

\* the strong-match override alone accepts the posting: it has fewer than two points
\* and a keyword score above 0.5
OverrideAlone(job) ==
    /\ TotalPoints(job) < 2
    /\ Has(job, "description")
    /\ ScoreAbove(KeywordScoreOf(job, ResumeKeywords), 5, 10)

\* C29: every posting accepted by filter_jobs has filter_match_score >= 1 and a non-empty
\* filter_match_reasons: the strong-match override (keyword_score > 0.5) can only fire
\* for a posting that already earned the keyword point, so no posting is ever returned
\* with score 0.
C29_AcceptedHasAPoint ==
    Returned =>
        \A k \in 1..Len(filtered_jobs) :
            LET job == filtered_jobs[k]
            IN  /\ job.filter_match_score >= 1
                /\ job.filter_match_reasons # <<>>
                /\ OverrideAlone(Original(job)) =>
                      /\ job.filter_match_score = 1
                      /\ HasReasonFor("description", job.filter_match_reasons)

\* a posting accepted by the override alone
C29_Witness ==
    /\ Returned
    /\ \E k \in 1..Len(filtered_jobs) : OverrideAlone(Original(filtered_jobs[k]))

-----------------------------------------------------------------------------
(* The keyword criterion on its own                                         *)

\* most resume keywords in a call of the keyword criterion
MaxKeywords == 5

\* resume keywords: lowercase, free of punctuation, longer than 2, no stop words, distinct
KeywordVocabulary ==
    <<<<"s", "q", "l">>,
      <<"a", "w", "s">>,
      <<"g", "i", "t">>,
      <<"p", "h", "p">>,
      <<"v", "u", "e">>,
      <<"c", "s", "s">>,
      <<"x", "m", "l">>>>

\* words a description is made of: keywords as words, with capitals and punctuation,
\* inside longer words, and a word that holds no keyword
DescriptionTokens ==
    <<<<"s", "q", "l">>,
      <<"A", "W", "S", ",">>,
      <<"g", "i", "t">>,
      <<"M", "y", "S", "Q", "L">>,
      <<"g", "i", "t", "h", "u", "b">>,
      <<"G", "o">>>>

\* the tokens picked, in order, separated by single spaces
RECURSIVE JoinTokens(_, _, _)
JoinTokens(tokens, picked, i) ==
    IF i > Len(tokens) THEN <<>>
    ELSE LET rest == JoinTokens(tokens, picked, i + 1)
         IN  IF i \notin picked THEN rest
             ELSE IF rest = <<>> THEN tokens[i]
             ELSE tokens[i] \o <<" ">> \o rest

DescriptionOf(picked) == JoinTokens(DescriptionTokens, picked, 1)

IdleFilter ==
    /\ environ = MakeEnviron(Absent, Absent)
    /\ resume_text = <<>>
    /\ jobs = <<>>
    /\ jobs_in = <<>>
    /\ filtered_jobs = <<>>
    /\ keyword_calls = 0
    /\ raised = "none"

InitKeyword ==
    /\ pc = "call"
    /\ IdleFilter
    /\ min_salary = ParseInt(DefaultPayGradeMin).value
    /\ target_location = DefaultLocation
    /\ \E n \in 0..MaxKeywords, picked \in SUBSET (1..Len(DescriptionTokens)) :
          args = [resume_keywords |-> SubSeq(KeywordVocabulary, 1, n),
                  job |-> MakeJob(101, "new", DescriptionOf(picked), Absent, Absent)]
    /\ ret = None

\* lines 51-59 of filter_jobs for one posting
ScoreKeywords ==
    /\ pc = "call"
    /\ ret' = KeywordCriterion(args.job, args.resume_keywords)
    /\ pc' = "ret"
    /\ UNCHANGED <<environ, min_salary, target_location, resume_text, jobs, jobs_in,
                   filtered_jobs, keyword_calls, raised, args>>

NextKeyword == ScoreKeywords

SpecKeyword == InitKeyword /\ [][NextKeyword]_vars

\* the words of a description: lowercased, punctuation dropped, split at whitespace
WordsOf(description) == Split(RemoveChars(Lower(description), Punctuation))

\* the keyword criterion has been applied to a posting with a description
KeywordScored == pc = "ret" /\ "keyword_score" \in DOMAIN ret /\ Has(args.job, "description")

-----------------------------------------------------------------------------
(* The salary criterion on its own                                          *)

\* the decimal digits of a natural number
RECURSIVE DigitsOf(_)
DigitsOf(n) ==
    IF n < 10 THEN <<DigitSeq[n + 1]>> ELSE Append(DigitsOf(n \div 10), DigitSeq[(n % 10) + 1])

\* digits with a comma before every group of three from the right
RECURSIVE WithCommas(_)
WithCommas(ds) ==
    IF Len(ds) <= 3 THEN ds
    ELSE WithCommas(SubSeq(ds, 1, Len(ds) - 3)) \o <<",">> \o SubSeq(ds, Len(ds) - 2, Len(ds))

\* the figures a salary text states
SalaryFigures == {22, 33, 34, 999, 1000, 1500, 45000, 50000, 69999, 70000, 80000, 100000}

SalarySuffixes == {<<>>, <<"/", "h", "r">>, <<" ", "a", " ", "y", "e", "a", "r">>}

\* a salary text that states one figure, with or without $ and thousands commas
SalaryText(figure, dollar, commas, suffix) ==
    (IF dollar THEN <<"$">> ELSE <<>>)
    \o (IF commas THEN WithCommas(DigitsOf(figure)) ELSE DigitsOf(figure))
    \o suffix

\* salary floors: the default, and the annual value of 22 an hour
MinSalaries == {ParseInt(DefaultPayGradeMin).value, 22 * HoursPerWeek * WeeksPerYear}

InitSalary ==
    /\ pc = "call"
    /\ IdleFilter
    /\ min_salary \in MinSalaries
    /\ target_location = DefaultLocation
    /\ \E figure \in SalaryFigures, dollar \in BOOLEAN, commas \in BOOLEAN,
          suffix \in SalarySuffixes :
          args = [figure |-> figure,
                  job |-> MakeJob(101, "new", Absent,
                                  SalaryText(figure, dollar, commas, suffix), Absent)]
    /\ ret = None

\* lines 61-66 of filter_jobs for one posting
CheckSalary ==
    /\ pc = "call"
    /\ ret' = [salary_match |-> SalaryPoint(args.job, min_salary)]
    /\ pc' = "ret"
    /\ UNCHANGED <<environ, min_salary, target_location, resume_text, jobs, jobs_in,
                   filtered_jobs, keyword_calls, raised, args>>

NextSalary == CheckSalary

SpecSalary == InitSalary /\ [][NextSalary]_vars

\* the value of a figure once a figure below 1000 is taken as an hourly rate
AnnualValue(figure) == IF figure < 1000 THEN figure * 40 * 52 ELSE figure

\* C4: for a salary text that states one figure written in digits, with or without a
\* leading $ and with or without thousands commas, the salary point is awarded if and
\* only if the figure's value (times 40*52 when below 1000) is >= the configured minimum;
\* "$45,000" is read as 45000 and "$22/hr" as 22*40*52 = 45760.
C4_SalaryPointIffFigureMeetsMinimum ==
    pc = "ret" /\ "salary_match" \in DOMAIN ret =>
        /\ ret.salary_match <=> AnnualValue(args.figure) >= min_salary
        /\ SalaryFindAll(Salary45, 1) = <<SubSeq(Salary45, 2, 7)>>
        /\ SalaryValue(SubSeq(Salary45, 2, 7)) = [num |-> 45000, den |-> 1]
        /\ SalaryValue(SalaryFindAll(Salary22, 1)[1]) = [num |-> 45760, den |-> 1]

\* the part of C4 the code meets: figures written with thousands commas, or of at most
\* three digits, earn the point exactly when their value meets the minimum
C4_GroupedFigures ==
    pc = "ret" /\ "salary_match" \in DOMAIN ret
        /\ (args.figure < 1000 \/ InSeq(",", args.job.salary)) =>
        (ret.salary_match <=> AnnualValue(args.figure) >= min_salary)

-----------------------------------------------------------------------------
(* The location criterion on its own                                        *)

\* longest location text drawn from LocationAlphabet
MaxLocationLen == 3

LocationAlphabet == {"n", "y", "N", ",", " "}

\* the texts over an alphabet of length at most n
TextsUpTo(alphabet, n) == UNION {[1..k -> alphabet] : k \in 0..n}

JobLocations == TextsUpTo(LocationAlphabet, MaxLocationLen) \cup {LocationNY, LocationRemote, Absent}

TargetLocations == TextsUpTo(LocationAlphabet, MaxLocationLen - 1) \cup {DefaultLocation}

InitLocation ==
    /\ pc = "call"
    /\ IdleFilter
    /\ min_salary = ParseInt(DefaultPayGradeMin).value
    /\ target_location \in TargetLocations
    /\ \E location \in JobLocations :
          args = [job |-> MakeJob(101, "new", Absent, Absent, location)]
    /\ ret = None

\* lines 68-73 of filter_jobs for one posting
CheckLocation ==
    /\ pc = "call"
    /\ ret' = [location_match |-> LocationPoint(args.job, target_location)]
    /\ pc' = "ret"
    /\ UNCHANGED <<environ, min_salary, target_location, resume_text, jobs, jobs_in,
                   filtered_jobs, keyword_calls, raised, args>>

NextLocation == CheckLocation

SpecLocation == InitLocation /\ [][NextLocation]_vars

\* the tokens of a location: lowercased, commas taken as spaces, split at whitespace
LocationTokens(location) == Range(Split(ReplaceChar(Lower(location), ",", " ")))

\* two locations share a token, or one is a substring of the other once lowercased
LocationsAgree(a, b) ==
    \/ LocationTokens(a) \cap LocationTokens(b) # {}
    \/ IsSubstr(Lower(a), Lower(b))
    \/ IsSubstr(Lower(b), Lower(a))

LocationChecked == pc = "ret" /\ "location_match" \in DOMAIN ret

\* the statement of C5 as written: the location point is awarded if and only if the
\* posting's location and the target location share a token or one is a substring of
\* the other.
C5_Original ==
    LocationChecked =>
        (ret.location_match <=>
            "location" \in DOMAIN args.job /\ LocationsAgree(args.job.location, target_location))

\* C5 (amended): when the posting's location and the target location are both non-empty,
\* the location point is awarded if and only if the two (lowercased, commas treated as
\* spaces) share a token, or one lowercased text is a substring of the other; when either
\* is empty or the posting has no location, no point is awarded.  "New York, NY" against
\* target "New York, NY" passes and "Remote" against "New York, NY" does not.
C5_LocationPoint ==
    LocationChecked =>
        /\ ret.location_match <=>
            /\ Has(args.job, "location")
            /\ target_location # <<>>
            /\ LocationsAgree(args.job.location, target_location)
        /\ Has(args.job, "location") /\ target_location = DefaultLocation =>
            /\ args.job.location = LocationNY => ret.location_match
            /\ args.job.location = LocationRemote => ~ret.location_match

\* a point earned by a substring alone, capitals apart, with no token in common
C5_Witness ==
    /\ LocationChecked
    /\ ret.location_match
    /\ LocationTokens(args.job.location) \cap LocationTokens(target_location) = {}
    /\ args.job.location # Lower(args.job.location)

-----------------------------------------------------------------------------
(* Construction of a JobFilter on its own                                   *)

\* longest TARGET_PAY_GRADE_MIN text drawn from PayAlphabet
MaxPayLen == 3

PayAlphabet == {"7", "0", "-", "+", " ", "_", ".", "k"}

ConfigEnvirons ==
    {MakeEnviron(pay, location) :
        pay \in TextsUpTo(PayAlphabet, MaxPayLen) \cup {Absent},
        location \in {Absent, <<>>, LocationRemote}}

InitConfig ==
    /\ pc = "start"
    /\ environ \in ConfigEnvirons
    /\ min_salary = None
    /\ target_location = None
    /\ resume_text = <<>>
    /\ jobs = <<>>
    /\ jobs_in = <<>>
    /\ filtered_jobs = <<>>
    /\ keyword_calls = 0
    /\ raised = "none"
    /\ args = None
    /\ ret = None

NextConfig == Construct

SpecConfig == InitConfig /\ [][NextConfig]_vars

\* the configured text of the salary floor
ConfiguredPay == load_config(environ).TARGET_PAY_GRADE_MIN

\* a text that reads as a number below zero: a minus sign, then digits, not all 0
ReadsNegative(text) ==
    LET t == Strip(text)
    IN  /\ Len(t) >= 2
        /\ t[1] = "-"
        /\ \A i \in 2..Len(t) : t[i] \in Digits
        /\ \E i \in 2..Len(t) : t[i] # "0"

\* C9: constructing a JobFilter fails with an error whenever the configured salary floor
\* TARGET_PAY_GRADE_MIN is non-numeric or negative; a JobFilter that was constructed
\* successfully always has min_salary as an integer >= 0.
C9_InvalidFloorRejected ==
    /\ pc = "ready" => min_salary \in Nat
    /\ pc \in {"ready", "failed"} /\ ReadsNegative(ConfiguredPay) => pc = "failed"

\* the part of C9 the code meets: a floor that is not an integer literal fails the
\* construction, and a constructed JobFilter holds the integer the text denotes
C9_NonNumericRejected ==
    /\ pc = "ready" => min_salary \in Int /\ ParseInt(ConfiguredPay).ok
    /\ pc = "failed" => raised = "ValueError" /\ ~ParseInt(ConfiguredPay).ok

-----------------------------------------------------------------------------
(* SkillExtractor: the taxonomy and the pattern pass                        *)

\* the characters of a string, one by one
Chars(s) == [i \in 1..Len(s) |-> SubSeq(s, i, i)]

\* sep.join(words)
RECURSIVE JoinWith(_, _)
JoinWith(words, sep) ==
    IF words = <<>> THEN <<>>
    ELSE IF Len(words) = 1 THEN words[1]
    ELSE words[1] \o sep \o JoinWith(Tail(words), sep)

\* the built-in taxonomy of _load_skill_patterns, in the order of the dict
DefaultSkillPatterns ==
    <<[category |-> "programming_languages",
       patterns |-> <<"python", "java", "javascript", "typescript", "c\\+\\+", "c#", "ruby",
                      "php", "go", "rust", "swift", "kotlin", "scala", "perl", "r", "dart">>],
      [category |-> "frameworks_libraries",
       patterns |-> <<"react", "angular", "vue", "node.js", "express", "django", "flask",
                      "spring", "asp.net", "laravel", "symfony", "rails", "flutter",
                      "tensorflow", "pytorch", "keras", "scikit-learn", "jquery", "bootstrap">>],
      [category |-> "databases",
       patterns |-> <<"sql", "mysql", "postgresql", "mongodb", "sqlite", "oracle", "redis",
                      "cassandra", "dynamodb", "firestore", "elasticsearch", "neo4j">>],
      [category |-> "cloud_devops",
       patterns |-> <<"aws", "azure", "gcp", "docker", "kubernetes", "jenkins", "terraform",
                      "ansible", "ci/cd", "git", "github", "gitlab", "bitbucket", "aws lambda",
                      "serverless", "microservices", "cloud computing">>],
      [category |-> "software_tools",
       patterns |-> <<"jira", "confluence", "trello", "slack", "figma", "sketch", "adobe",
                      "photoshop", "illustrator", "xd", "zeplin", "tableau", "power bi",
                      "excel", "powerpoint", "word", "linux", "unix", "windows", "macos">>],
      [category |-> "methodologies",
       patterns |-> <<"agile", "scrum", "kanban", "waterfall", "lean", "test-driven development",
                      "behavior-driven development", "devops", "continuous integration",
                      "continuous deployment", "continuous delivery", "pair programming">>],
      [category |-> "machine_learning",
       patterns |-> <<"machine learning", "deep learning", "artificial intelligence", "ai",
                      "natural language processing", "nlp", "computer vision", "neural networks",
                      "data mining", "predictive modeling", "reinforcement learning",
                      "supervised learning", "unsupervised learning", "classification",
                      "regression", "clustering">>],
      [category |-> "soft_skills",
       patterns |-> <<"communication", "teamwork", "problem solving", "leadership",
                      "time management", "critical thinking", "adaptability", "collaboration",
                      "presentation", "negotiation", "conflict resolution",
                      "emotional intelligence">>]>>

\* \w of the re module
WordChars ==
    DOMAIN UpperToLower \cup {UpperToLower[c] : c \in DOMAIN UpperToLower} \cup Digits \cup {"_"}

\* a pattern read as a regular expression: a backslash makes the next character literal,
\* a dot stands for any character but a newline, every other character of the taxonomy
\* and of the skill names stands for itself
RECURSIVE RegexOf(_)
RegexOf(p) ==
    IF p = <<>> THEN <<>>
    ELSE IF p[1] = "\\" /\ Len(p) >= 2
         THEN <<[any |-> FALSE, ch |-> p[2]]>> \o RegexOf(SubSeq(p, 3, Len(p)))
    ELSE IF p[1] = "."
         THEN <<[any |-> TRUE, ch |-> "."]>> \o RegexOf(Tail(p))
    ELSE <<[any |-> FALSE, ch |-> p[1]]>> \o RegexOf(Tail(p))

\* \b between text[p] and text[p + 1]: a word character on exactly one side
IsBoundary(text, p) ==
    LET before == p >= 1 /\ p <= Len(text) /\ text[p] \in WordChars
        after == p + 1 >= 1 /\ p + 1 <= Len(text) /\ text[p + 1] \in WordChars
    IN  before # after

\* \b regex \b matches the text from position i on
MatchesAt(regex, text, i) ==
    /\ i + Len(regex) - 1 <= Len(text)
    /\ \A k \in 1..Len(regex) :
          IF regex[k].any THEN text[i + k - 1] # "\n" ELSE text[i + k - 1] = regex[k].ch
    /\ IsBoundary(text, i - 1)
    /\ IsBoundary(text, i + Len(regex) - 1)

\* re.search(r'\b' + pattern + r'\b', text) finds something
re_search(regex, text) == \E i \in 1..Len(text) : MatchesAt(regex, text, i)

\* len(re.findall(r'\b' + pattern + r'\b', text)): matches from left to right, no overlap
RECURSIVE CountFindAll(_, _, _)
CountFindAll(regex, text, i) ==
    IF i > Len(text) THEN 0
    ELSE IF MatchesAt(regex, text, i) THEN 1 + CountFindAll(regex, text, i + Len(regex))
    ELSE CountFindAll(regex, text, i + 1)

\* stopwords.words('english') of NLTK, without the entries that hold an apostrophe
\* (no token holds one once its punctuation is removed)
NltkStopWords ==
    {Chars(w) : w \in
       {"i", "me", "my", "myself", "we", "our", "ours", "ourselves", "you", "your", "yours",
        "yourself", "yourselves", "he", "him", "his", "himself", "she", "her", "hers",
        "herself", "it", "its", "itself", "they", "them", "their", "theirs", "themselves",
        "what", "which", "who", "whom", "this", "that", "these", "those", "am", "is", "are",
        "was", "were", "be", "been", "being", "have", "has", "had", "having", "do", "does",
        "did", "doing", "a", "an", "the", "and", "but", "if", "or", "because", "as", "until",
        "while", "of", "at", "by", "for", "with", "about", "against", "between", "into",
        "through", "during", "before", "after", "above", "below", "to", "from", "up", "down",
        "in", "out", "on", "off", "over", "under", "again", "further", "then", "once", "here",
        "there", "when", "where", "why", "how", "all", "any", "both", "each", "few", "more",
        "most", "other", "some", "such", "no", "nor", "not", "only", "own", "same", "so",
        "than", "too", "very", "s", "t", "can", "will", "just", "don", "should", "now", "d",
        "ll", "m", "o", "re", "ve", "y", "ain", "aren", "couldn", "didn", "doesn", "hadn",
        "hasn", "haven", "isn", "ma", "mightn", "mustn", "needn", "shan", "shouldn", "wasn",
        "weren", "won", "wouldn"}}

\* punctuation that word_tokenize makes a token of its own
SplitOffChars ==
    {",", ";", ":", "?", "!", "(", ")", "[", "]", "{", "}", "<", ">", "@", "#", "$", "%", "&",
     "\""}

\* word_tokenize(text) for a text of one sentence without a final period and without
\* apostrophes: the text is cut at whitespace and at the characters split off, which
\* are left out here because _preprocess_text drops them as empty tokens
word_tokenize(text) ==
    Split([i \in 1..Len(text) |-> IF text[i] \in SplitOffChars THEN " " ELSE text[i]])

\* plural nouns of the documents and of the taxonomy with their WordNet lemma
NounLemmas == {<<"skills", "skill">>, <<"windows", "window">>, <<"rails", "rail">>,
               <<"networks", "network">>, <<"clouds", "cloud">>}

\* lemmatizer.lemmatize(token): the noun lemma, the token itself when WordNet has none
lemmatize(token) ==
    IF \E e \in NounLemmas : Chars(e[1]) = token
    THEN Chars((CHOOSE e \in NounLemmas : Chars(e[1]) = token)[2])
    ELSE token

RECURSIVE ProcessTokens(_)
ProcessTokens(tokens) ==
    IF tokens = <<>> THEN <<>>
    ELSE LET token == RemoveChars(tokens[1], Punctuation)
         IN  IF token # <<>> /\ token \notin NltkStopWords
             THEN <<lemmatize(token)>> \o ProcessTokens(Tail(tokens))
             ELSE ProcessTokens(Tail(tokens))

preprocess_text(text) == JoinWith(ProcessTokens(word_tokenize(Lower(text))), <<" ">>)

UpperChar(c) ==
    IF \E u \in DOMAIN UpperToLower : UpperToLower[u] = c
    THEN CHOOSE u \in DOMAIN UpperToLower : UpperToLower[u] = c
    ELSE c

\* str.capitalize()
Capitalize(word) ==
    [i \in 1..Len(word) |-> IF i = 1 THEN UpperChar(word[i]) ELSE LowerChar(word[i])]

SpecialSkillNames ==
    {<<"python", "Python">>, <<"javascript", "JavaScript">>, <<"typescript", "TypeScript">>,
     <<"c\\+\\+", "C++">>, <<"c#", "C#">>, <<"node.js", "Node.js">>, <<"asp.net", "ASP.NET">>,
     <<"ci/cd", "CI/CD">>}

format_skill_name(skill_pattern) ==
    IF \E e \in SpecialSkillNames : Chars(e[1]) = skill_pattern
    THEN Chars((CHOOSE e \in SpecialSkillNames : Chars(e[1]) = skill_pattern)[2])
    ELSE JoinWith([i \in 1..Len(Split(skill_pattern)) |-> Capitalize(Split(skill_pattern)[i])],
                  <<" ">>)

-----------------------------------------------------------------------------
(* SkillExtractor: extract_skills and compare_skills                        *)

\* pattern.replace('\\\\', '\\'): two backslashes in a row become one
RECURSIVE search_pattern(_)
search_pattern(p) ==
    IF Len(p) < 2 THEN p
    ELSE IF p[1] = "\\" /\ p[2] = "\\" THEN <<"\\">> \o search_pattern(SubSeq(p, 3, Len(p)))
    ELSE <<p[1]>> \o search_pattern(Tail(p))

\* the patterns of the taxonomy
TaxonomyPatterns ==
    UNION {Range(DefaultSkillPatterns[c].patterns) : c \in 1..Len(DefaultSkillPatterns)}

\* the regular expression searched for each pattern, and the pattern's display name
PatternRegex == [p \in TaxonomyPatterns |-> RegexOf(search_pattern(Chars(p)))]

PatternName == [p \in TaxonomyPatterns |-> format_skill_name(Chars(p))]

\* the display names of the patterns of one category that the text holds
CategorySkills(patterns, preprocessed_text) ==
    LET found == SelectSeq(patterns,
                           LAMBDA pattern : re_search(PatternRegex[pattern],
                                                      preprocessed_text))
    IN  [i \in 1..Len(found) |-> PatternName[found[i]]]

\* a dict of skill lists is a list of [category, skills] in the order of insertion
PatternSkills(skill_patterns, preprocessed_text) ==
    SelectSeq([c \in 1..Len(skill_patterns) |->
                  [category |-> skill_patterns[c].category,
                   skills |-> CategorySkills(skill_patterns[c].patterns,
                                             preprocessed_text)]],
              LAMBDA found : found.skills # <<>>)

extract_skills_with_patterns(preprocessed_text) ==
    PatternSkills(DefaultSkillPatterns, preprocessed_text)

\* list(set(l)): the distinct elements in an order that the hash seed decides
Orders(S) == {l \in [1..Cardinality(S) -> S] : \A i, j \in 1..Cardinality(S) : l[i] = l[j] => i = j}

NotSkills ==
    {Chars(w) : w \in {"the company", "the job", "the role", "the position", "the team",
                       "the project", "the work", "the experience"}}

\* the lists that _extract_skills_with_spacy can return for a parsed document: entities
\* labelled ORG or PRODUCT, and noun chunks of more than one word, lowercased, each list
\* without duplicates and without short or common terms
extract_skills_with_spacy(doc) ==
    LET tools == {Lower(doc.ents[i].text) : i \in {k \in 1..Len(doc.ents) :
                                                      doc.ents[k].label \in {"ORG", "PRODUCT"}}}
        terms == {Lower(doc.noun_chunks[i]) : i \in {k \in 1..Len(doc.noun_chunks) :
                                                      Len(Split(doc.noun_chunks[k])) > 1}}
        Kept(S) == {s \in S : Len(s) > 3 /\ s \notin NotSkills}
    IN  {<<[category |-> "technical_terms", skills |-> technical_terms],
           [category |-> "tools_and_technologies", skills |-> tools_and_technologies]>> :
            technical_terms \in Orders(Kept(terms)),
            tools_and_technologies \in Orders(Kept(tools))}

HasCategory(skills, category) == \E i \in 1..Len(skills) : skills[i].category = category

\* skills.get(category, [])
SkillsOf(skills, category) ==
    IF HasCategory(skills, category)
    THEN skills[CHOOSE i \in 1..Len(skills) : skills[i].category = category].skills
    ELSE <<>>

\* a merge in which the second pass takes the place of the first
MergeSkillsReplacing(skills, spacy_skills) == {spacy_skills}

\* the merge of lines 135-139, one category of the second pass after the other
RECURSIVE MergeSkills(_, _)
MergeSkills(skills, spacy_skills) ==
    IF spacy_skills = <<>> THEN {skills}
    ELSE LET category == spacy_skills[1].category
             category_skills == spacy_skills[1].skills
             merged ==
                IF HasCategory(skills, category)
                THEN {[i \in 1..Len(skills) |->
                         IF skills[i].category = category
                         THEN [category |-> category, skills |-> order]
                         ELSE skills[i]] :
                      order \in Orders(Range(SkillsOf(skills, category) \o category_skills))}
                ELSE {Append(skills, [category |-> category, skills |-> category_skills])}
         IN  UNION {MergeSkills(m, Tail(spacy_skills)) : m \in merged}

\* [skill for category_skills in skills.values() for skill in category_skills]
RECURSIVE Flatten(_)
Flatten(skills) == IF skills = <<>> THEN <<>> ELSE skills[1].skills \o Flatten(Tail(skills))

\* skill.lower().replace('+', '\\+')
RECURSIVE frequency_pattern(_)
frequency_pattern(s) ==
    IF s = <<>> THEN <<>>
    ELSE (IF s[1] = "+" THEN <<"\\", "+">> ELSE <<LowerChar(s[1])>>) \o frequency_pattern(Tail(s))

calculate_skill_frequencies(skills, preprocessed_text) ==
    [skill \in Range(Flatten(skills)) |->
        CountFindAll(RegexOf(frequency_pattern(skill)), preprocessed_text, 1)]

\* the empty dict
EmptyDict == <<>>

\* the results extract_skills can return for a text; nlp tells whether the spaCy model is
\* loaded, doc is what the model makes of the text
extract_skills(text, nlp, doc) ==
    IF text = <<>> THEN {EmptyDict}
    ELSE LET preprocessed_text == preprocess_text(text)
             skills == extract_skills_with_patterns(preprocessed_text)
             merged == IF nlp
                       THEN UNION {MergeSkills(skills, spacy_skills) :
                                      spacy_skills \in extract_skills_with_spacy(doc)}
                       ELSE {skills}
         IN  {[skill_categories |-> m,
               all_skills |-> Flatten(m),
               skill_frequencies |-> calculate_skill_frequencies(m, preprocessed_text)] :
                m \in merged}

\* d.get(key, default)
DictGet(d, key, default) == IF key \in DOMAIN d THEN d[key] ELSE default

\* a percentage cut off after the second decimal
PercentageCutOff(n, d) == (n * 10000) \div d

\* round((n / d) * 100, 2) in hundredths; below 32 job skills no quotient lies half-way
\* between two hundredths
Percentage(n, d) == (2 * n * 10000 + d) \div (2 * d)

CategoryNames(skills) == {skills[i].category : i \in 1..Len(skills)}

\* compare_skills; match_percentage is in hundredths of a percent, and the lists made from
\* sets (the matching and missing skills of a category) are held as sets
compare_skills(resume_skills, job_skills) ==
    LET resume_all_skills == DictGet(resume_skills, "all_skills", <<>>)
        job_all_skills == DictGet(job_skills, "all_skills", <<>>)
        matching_skills == SelectSeq(resume_all_skills, LAMBDA skill : InSeq(skill, job_all_skills))
        missing_skills == SelectSeq(job_all_skills, LAMBDA skill : ~InSeq(skill, resume_all_skills))
        resume_categories == DictGet(resume_skills, "skill_categories", <<>>)
        job_categories == DictGet(job_skills, "skill_categories", <<>>)
        all_categories == CategoryNames(resume_categories) \cup CategoryNames(job_categories)
    IN  [matching_skills |-> matching_skills,
         missing_skills |-> missing_skills,
         match_percentage |-> IF job_all_skills # <<>>
                              THEN Percentage(Len(matching_skills), Len(job_all_skills))
                              ELSE 0,
         categories |->
            [category \in all_categories |->
                LET resume_category_skills == Range(SkillsOf(resume_categories, category))
                    job_category_skills == Range(SkillsOf(job_categories, category))
                    category_matching == resume_category_skills \cap job_category_skills
                IN  [matching |-> category_matching,
                     missing |-> job_category_skills \ resume_category_skills,
                     match_percentage |->
                        IF job_category_skills # {}
                        THEN Percentage(Cardinality(category_matching),
                                        Cardinality(job_category_skills))
                        ELSE 0]]]

-----------------------------------------------------------------------------
(* extract_and_compare on a resume and a job description                   *)

\* most words of a resume document
MaxDocWords == 2

DocWords == {"Python", "Google", "Cloud"}

\* the text of a list of words
TextOf(words) == JoinWith([i \in 1..Len(words) |-> Chars(words[i])], <<" ">>)

\* a document of which the spaCy model makes nothing
NoDoc == [ents |-> <<>>, noun_chunks |-> <<>>]

EntityLabels == {"ORG", "PERSON"}

\* what the spaCy model can make of a text: at most one entity, any run of its words
\* under any label, and the whole text as a noun chunk when it has two words or more
ParsedDocs(words) ==
    LET spans == {s \in (1..Len(words)) \X (1..Len(words)) : s[1] <= s[2]}
        SpanText(s) == TextOf(SubSeq(words, s[1], s[2]))
    IN  {[ents |-> e, noun_chunks |-> c] :
            e \in {<<>>} \cup {<<[text |-> SpanText(s), label |-> l]>> :
                                  s \in spans, l \in EntityLabels},
            c \in {<<>>} \cup {<<TextOf(words)>> : n \in 2..Len(words)}}

\* the documents of the scenario of extract_and_compare
ScenarioResume == Chars("Python, AWS, Docker")

ScenarioJob == Chars("Looking for a Python engineer with AWS and Kubernetes experience")

ResumeDocuments ==
    {[text |-> ScenarioResume, doc |-> NoDoc]} \cup
    {[text |-> TextOf(words), doc |-> doc] :
        words \in UNION {[1..n -> DocWords] : n \in 0..MaxDocWords}, doc \in {NoDoc}}
    \cup UNION {{[text |-> TextOf(words), doc |-> doc] : doc \in ParsedDocs(words)} :
                   words \in UNION {[1..n -> DocWords] : n \in 0..MaxDocWords}}

JobDocuments ==
    {[text |-> <<>>, doc |-> NoDoc],
     [text |-> ScenarioJob, doc |-> NoDoc],
     [text |-> Chars("Python"), doc |-> NoDoc],
     [text |-> Chars("Python AWS"), doc |-> NoDoc],
     [text |-> Chars("google cloud"),
      doc |-> [ents |-> <<>>, noun_chunks |-> <<Chars("google cloud")>>]],
     [text |-> Chars("Google Cloud"),
      doc |-> [ents |-> <<[text |-> Chars("Google Cloud"), label |-> "ORG"]>>,
               noun_chunks |-> <<Chars("Google Cloud")>>]]}

\* the model makes the same of the same text; without a model nothing is parsed
InitSkills ==
    /\ pc = "start"
    /\ IdleFilter
    /\ min_salary = ParseInt(DefaultPayGradeMin).value
    /\ target_location = DefaultLocation
    /\ \E resume \in ResumeDocuments, job \in JobDocuments, nlp \in BOOLEAN :
          /\ nlp /\ resume.text = job.text => resume.doc = job.doc
          /\ ~nlp => resume.doc = NoDoc
          /\ args = [nlp |-> nlp,
                     resume_text |-> resume.text, resume_doc |-> resume.doc,
                     job_text |-> job.text, job_doc |-> IF nlp THEN job.doc ELSE NoDoc]
    /\ ret = None

\* resume_skills = self.extract_skills(resume_text)
ExtractResume ==
    /\ pc = "start"
    /\ \E resume_skills \in extract_skills(args.resume_text, args.nlp, args.resume_doc) :
          ret' = [resume_skills |-> resume_skills]
    /\ pc' = "resume_skills"
    /\ UNCHANGED <<environ, min_salary, target_location, resume_text, jobs, jobs_in,
                   filtered_jobs, keyword_calls, raised, args>>

\* job_skills = self.extract_skills(job_description)
ExtractJob ==
    /\ pc = "resume_skills"
    /\ \E job_skills \in extract_skills(args.job_text, args.nlp, args.job_doc) :
          ret' = [resume_skills |-> ret.resume_skills, job_skills |-> job_skills]
    /\ pc' = "job_skills"
    /\ UNCHANGED <<environ, min_salary, target_location, resume_text, jobs, jobs_in,
                   filtered_jobs, keyword_calls, raised, args>>

\* comparison = self.compare_skills(resume_skills, job_skills)
CompareSkills ==
    /\ pc = "job_skills"
    /\ ret' = [resume_skills |-> ret.resume_skills, job_skills |-> ret.job_skills,
               comparison |-> compare_skills(ret.resume_skills, ret.job_skills)]
    /\ pc' = "comparison"
    /\ UNCHANGED <<environ, min_salary, target_location, resume_text, jobs, jobs_in,
                   filtered_jobs, keyword_calls, raised, args>>

NextSkills == ExtractResume \/ ExtractJob \/ CompareSkills

SpecSkills == InitSkills /\ [][NextSkills]_vars

\* C10: for every pair of skill-extraction results R (resume) and J (job), including
\* results whose all_skills lists are empty or missing, compare_skills(R, J).match_percentage
\* is in [0, 100], and it is 0 whenever J.all_skills is empty, whatever R is.
C10_MatchPercentageInRange ==
    pc = "comparison" =>
        /\ ret.comparison.match_percentage >= 0
        /\ ret.comparison.match_percentage <= 100 * 100
        /\ DictGet(ret.job_skills, "all_skills", <<>>) = <<>> =>
              ret.comparison.match_percentage = 0

\* the part of C10 the code meets: the percentage is never negative, it is 0 for a job
\* without skills, and it is at most 100 when the resume lists no skill twice
C10_RangeWithoutDuplicates ==
    pc = "comparison" =>
        LET resume_all == DictGet(ret.resume_skills, "all_skills", <<>>)
        IN  /\ ret.comparison.match_percentage >= 0
            /\ DictGet(ret.job_skills, "all_skills", <<>>) = <<>> =>
                  ret.comparison.match_percentage = 0
            /\ Cardinality(Range(resume_all)) = Len(resume_all) =>
                  ret.comparison.match_percentage <= 100 * 100

-----------------------------------------------------------------------------
(* Properties of extract_skills                                              *)

\* the results of extract_skills that a state holds
ExtractedResults ==
    IF pc = "resume_skills" THEN {ret.resume_skills}
    ELSE IF pc \in {"job_skills", "comparison"} THEN {ret.resume_skills, ret.job_skills}
    ELSE {}

\* C11: in every result of extract_skills, all_skills contains no skill name more than
\* once, whether or not the secondary (spaCy) pass contributed categories.
C11_AllSkillsDistinct ==
    \A result \in ExtractedResults :
        LET all_skills == DictGet(result, "all_skills", <<>>)
        IN  \A i, j \in 1..Len(all_skills) : all_skills[i] = all_skills[j] => i = j

\* the part of C11 the code meets: without the spaCy pass no skill is listed twice
C11_PatternSkillsDistinct ==
    ~args.nlp =>
        \A result \in ExtractedResults :
            LET all_skills == DictGet(result, "all_skills", <<>>)
            IN  \A i, j \in 1..Len(all_skills) : all_skills[i] = all_skills[j] => i = j

\* C12: in every result of extract_skills, no category of skill_categories maps to an
\* empty list: a category for which nothing was found is absent from the result, the
\* technical_terms and tools_and_technologies categories of the secondary pass included.
C12_NoEmptyCategory ==
    \A result \in ExtractedResults :
        LET skill_categories == DictGet(result, "skill_categories", <<>>)
        IN  \A i \in 1..Len(skill_categories) : skill_categories[i].skills # <<>>

\* the part of C12 the code meets: a taxonomy category is never listed with an empty list
C12_NoEmptyTaxonomyCategory ==
    \A result \in ExtractedResults :
        LET skill_categories == DictGet(result, "skill_categories", <<>>)
        IN  \A i \in 1..Len(skill_categories) :
               skill_categories[i].category \notin {"technical_terms", "tools_and_technologies"}
                   => skill_categories[i].skills # <<>>

TaxonomyCategories == {DefaultSkillPatterns[i].category : i \in 1..Len(DefaultSkillPatterns)}

\* the categories of a result that are categories of the taxonomy, in their order
TaxonomyPart(skill_categories) ==
    SelectSeq(skill_categories, LAMBDA c : c.category \in TaxonomyCategories)

\* C13: for the same text and the built-in taxonomy, the skills listed under each
\* taxonomy category by extract_skills are identical whether the secondary spaCy pass is
\* available or not; the pass can only add the technical_terms and
\* tools_and_technologies categories.
C13_TaxonomyCategoriesUnchanged ==
    pc = "resume_skills" /\ args.resume_text # <<>> =>
        \A without \in extract_skills(args.resume_text, FALSE, NoDoc) :
            /\ TaxonomyPart(ret.resume_skills.skill_categories) = without.skill_categories
            /\ CategoryNames(ret.resume_skills.skill_categories) \ TaxonomyCategories
                  \subseteq {"technical_terms", "tools_and_technologies"}
            /\ ~args.nlp => ret.resume_skills = without

\* the pattern pass found a skill and the spaCy pass added a term to the result
C13_Witness ==
    /\ pc = "resume_skills"
    /\ args.nlp
    /\ args.resume_text # <<>>
    /\ TaxonomyPart(ret.resume_skills.skill_categories) # <<>>
    /\ SkillsOf(ret.resume_skills.skill_categories, "tools_and_technologies") # <<>>

-----------------------------------------------------------------------------
(* extract_skills on a document that names one pattern of the taxonomy      *)

\* str.upper()
Upper(s) == [i \in 1..Len(s) |-> UpperChar(s[i])]

\* the text a pattern stands for: the pattern without its escaping backslashes
RECURSIVE PatternText(_)
PatternText(p) ==
    IF p = <<>> THEN <<>>
    ELSE IF p[1] = "\\" /\ Len(p) >= 2 THEN <<p[2]>> \o PatternText(SubSeq(p, 3, Len(p)))
    ELSE <<p[1]>> \o PatternText(Tail(p))

\* what a document can hold before and after the pattern
TextsBefore == {<<>>, Chars("know ")}

TextsAfter == {<<>>, Chars(" well"), Chars(", Python")}

InitPattern ==
    /\ pc = "call"
    /\ IdleFilter
    /\ min_salary = ParseInt(DefaultPayGradeMin).value
    /\ target_location = DefaultLocation
    /\ \E p \in TaxonomyPatterns, before \in TextsBefore, after \in TextsAfter,
          upper \in BOOLEAN :
          args = [pattern |-> p,
                  text |-> before
                           \o (IF upper THEN Upper(PatternText(Chars(p)))
                               ELSE PatternText(Chars(p)))
                           \o after]
    /\ ret = None

\* extract_skills(text) without the spaCy model
ExtractSkills ==
    /\ pc = "call"
    /\ \E result \in extract_skills(args.text, FALSE, NoDoc) : ret' = result
    /\ pc' = "ret"
    /\ UNCHANGED <<environ, min_salary, target_location, resume_text, jobs, jobs_in,
                   filtered_jobs, keyword_calls, raised, args>>

NextPattern == ExtractSkills

SpecPattern == InitPattern /\ [][NextPattern]_vars

\* the result lists the display name of the pattern, with a frequency of 1 or more
PatternListed ==
    LET name == format_skill_name(Chars(args.pattern))
    IN  /\ InSeq(name, ret.all_skills)
        /\ name \in DOMAIN ret.skill_frequencies
        /\ ret.skill_frequencies[name] >= 1

\* C14: for every pattern p of the taxonomy, including patterns that contain punctuation
\* (c++, c#, node.js, asp.net, ci/cd, scikit-learn, test-driven development), if p
\* occurs at word boundaries in a document then extract_skills of that document lists
\* p's canonical display name in all_skills and skill_frequencies of that name is >= 1.
C14_PatternListed == pc = "ret" => PatternListed

\* the part of C14 the code meets: a pattern that _preprocess_text leaves as it is
\* (no punctuation, no word that the lemmatizer changes) is listed
C14_UnchangedPatternListed ==
    pc = "ret" /\ preprocess_text(PatternText(Chars(args.pattern))) = Chars(args.pattern)
        => PatternListed

-----------------------------------------------------------------------------
(* ResumeParser._extract_section: app/resume_processor/parser.py.           *)
(* app/resume_processor/parser.py.  Positions are Python offsets: the       *)
(* character at offset p of s is s[p + 1].                                  *)

\* s[a:b] for 0 <= a and 0 <= b
Slice(s, a, b) == SubSeq(s, a + 1, Min(b, Len(s)))

\* s[a:]
SliceFrom(s, a) == SubSeq(s, a + 1, Len(s))

\* the word w stands in s at offset p
WordAt(s, p, w) == p + Len(w) <= Len(s) /\ \A k \in 1..Len(w) : s[p + k] = w[k]

\* the offset after the longest run of characters of class that starts at offset p
AfterRun(s, p, class) ==
    CHOOSE q \in p..Len(s) :
        /\ \A k \in (p + 1)..q : s[k] \in class
        /\ (q = Len(s) \/ s[q + 1] \notin class)

\* the smallest element of a non-empty set of numbers
Least(S) == CHOOSE x \in S : \A y \in S : x <= y

Greatest(S) == CHOOSE x \in S : \A y \in S : x >= y

\* the section names _extract_skills, _extract_education and _extract_experience look for
SkillsSectionNames == <<"skills", "technical skills", "expertise", "technologies">>

EducationSectionNames == <<"education", "academic background", "academic credentials">>

ExperienceSectionNames ==
    <<"experience", "work experience", "professional experience", "employment">>

\* (?i)(?:^|\n)((?:name|...)[\s:]*)\n at a line that starts at offset p: the offset
\* after the match, or -1.  The run [\s:]* is greedy and gives characters back until a
\* newline follows, so the match ends after the last newline of the run.
SectionHeaderEnd(text, section_names, p) ==
    LET named == {n \in 1..Len(section_names) :
                     WordAt(Lower(text), p, Chars(section_names[n]))}
        EndWith(n) ==
            LET from == p + Len(section_names[n])
                upto == AfterRun(text, from, Whitespace \cup {":"})
                newlines == {q \in from..(upto - 1) : text[q + 1] = "\n"}
            IN  IF newlines = {} THEN -1 ELSE Greatest(newlines) + 1
        good == {n \in named : EndWith(n) # -1}
    IN  IF good = {} THEN -1 ELSE EndWith(Least(good))

\* the offsets at which (?:^|\n) lets a line begin
LineStarts(text) == {0} \cup {p \in 1..Len(text) : text[p] = "\n"}

\* (?:^|\n)([A-Z][A-Za-z\s]+:?\s*)\n has a match whose header starts at offset p of
\* rest: an upper-case letter, one or more letters or whitespace, an optional colon,
\* optional whitespace, and a newline
NextHeaderAt(rest, p) ==
    /\ p < Len(rest)
    /\ rest[p + 1] \in DOMAIN UpperToLower
    /\ LET body == AfterRun(rest, p + 1, Letters \cup Whitespace)
       IN  \/ \E n \in (p + 2)..(body - 1) : rest[n + 1] = "\n"
           \/ \E k \in (p + 2)..body :
                 /\ k < Len(rest)
                 /\ rest[k + 1] = ":"
                 /\ \E n \in (k + 1)..(AfterRun(rest, k + 1, Whitespace) - 1) :
                       rest[n + 1] = "\n"

\* next_section_match.start(), or -1: the match starts at the newline before the header,
\* or at offset 0
NextHeaderStart(rest) ==
    LET found == {p \in LineStarts(rest) : NextHeaderAt(rest, p)}
    IN  IF found = {} THEN -1
        ELSE LET p == Least(found) IN IF p = 0 THEN 0 ELSE p - 1

\* the return value None of _extract_section
NoSection == [found |-> FALSE, text |-> <<>>]

\* ResumeParser._extract_section: the stripped text between the first section header and
\* the next header, or None
extract_section(text, section_names) ==
    LET headers == {p \in LineStarts(text) : SectionHeaderEnd(text, section_names, p) # -1}
    IN  IF headers = {} THEN NoSection
        ELSE LET section_start == SectionHeaderEnd(text, section_names, Least(headers))
                 next_start == NextHeaderStart(SliceFrom(text, section_start))
                 section_end == IF next_start # -1 THEN section_start + next_start
                                ELSE Len(text)
             IN  [found |-> TRUE, text |-> Strip(Slice(text, section_start, section_end))]

\* the text an extractor scans: "if not section: section = text"
SectionOrText(text, section_names) ==
    LET section == extract_section(text, section_names)
    IN  IF ~section.found \/ section.text = <<>> THEN text ELSE section.text


-----------------------------------------------------------------------------
(* ResumeParser._extract_skills                                              *)

\* tech_skills of ResumeParser._extract_skills, in the order of the list
ParserTechSkills ==
    <<"python", "java", "javascript", "typescript", "c\\+\\+", "c#", "ruby", "php", "go",
      "rust", "swift",
      "react", "angular", "vue", "node.js", "express", "django", "flask", "spring", "asp.net",
      "html", "css", "sql", "nosql", "mongodb", "postgresql", "mysql", "oracle", "azure",
      "aws", "gcp",
      "kubernetes", "docker", "jenkins", "ci/cd", "git", "github", "gitlab", "bitbucket",
      "agile", "scrum", "kanban", "jira", "confluence", "devops", "machine learning", "ai",
      "data science", "data analysis", "data visualization", "tableau", "power bi",
      "tensorflow", "pytorch", "keras", "pandas", "numpy", "scipy", "scikit-learn">>

\* str.title(): a letter after a character that is no letter is made upper case, every
\* other letter lower case
Title(s) ==
    [i \in 1..Len(s) |->
        IF i = 1 \/ s[i - 1] \notin Letters THEN UpperChar(s[i]) ELSE LowerChar(s[i])]

\* the display name that lines 170-186 give a skill of the list
ParserSkillName(skill) ==
    IF skill = Chars("python") THEN Chars("Python")
    ELSE IF skill = Chars("javascript") THEN Chars("JavaScript")
    ELSE IF skill = Chars("typescript") THEN Chars("TypeScript")
    ELSE IF skill = Chars("c\\+\\+") THEN Chars("C++")
    ELSE IF skill = Chars("node.js") THEN Chars("Node.js")
    ELSE IF skill = Chars("asp.net") THEN Chars("ASP.NET")
    ELSE IF skill = Chars("ci/cd") THEN Chars("CI/CD")
    ELSE Title(skill)

\* the loop over tech_skills: the display names of the skills found, in list order
ParserSkills(tech_skills, skills_section) ==
    LET found == SelectSeq(tech_skills,
                           LAMBDA skill : re_search(RegexOf(Chars(skill)),
                                                    Lower(skills_section)))
    IN  [i \in 1..Len(found) |-> ParserSkillName(Chars(found[i]))]

\* ResumeParser._extract_skills
parser_extract_skills(text) ==
    ParserSkills(ParserTechSkills, SectionOrText(text, SkillsSectionNames))

InitParserSkills ==
    /\ pc = "call"
    /\ IdleFilter
    /\ min_salary = ParseInt(DefaultPayGradeMin).value
    /\ target_location = DefaultLocation
    /\ \E p \in Range(ParserTechSkills), before \in TextsBefore, after \in TextsAfter,
          upper \in BOOLEAN :
          args = [pattern |-> p,
                  text |-> before
                           \o (IF upper THEN Upper(PatternText(Chars(p)))
                               ELSE PatternText(Chars(p)))
                           \o after]
    /\ ret = None

\* self._extract_skills(text)
ParseSkills ==
    /\ pc = "call"
    /\ ret' = [skills |-> parser_extract_skills(args.text)]
    /\ pc' = "ret"
    /\ UNCHANGED <<environ, min_salary, target_location, resume_text, jobs, jobs_in,
                   filtered_jobs, keyword_calls, raised, args>>

NextParserSkills == ParseSkills

SpecParserSkills == InitParserSkills /\ [][NextParserSkills]_vars

\* the parser has found the pattern of the document, which the taxonomy holds too
CommonPatternFound ==
    /\ pc = "ret"
    /\ args.pattern \in TaxonomyPatterns
    /\ re_search(RegexOf(Chars(args.pattern)), Lower(args.text))

\* C15: for every skill pattern that is in both the resume parser's built-in vocabulary
\* and the skill taxonomy, ResumeParser._extract_skills produces the same canonical
\* display name as SkillExtractor._format_skill_name (the documented special cases,
\* otherwise each word capitalised).
C15_SameDisplayName ==
    CommonPatternFound =>
        /\ InSeq(format_skill_name(Chars(args.pattern)), ret.skills)
        /\ ParserSkillName(Chars(args.pattern)) = format_skill_name(Chars(args.pattern))

\* the part of C15 the code meets: the names agree for the common patterns without a
\* hyphen
C15_SameNameWithoutHyphen ==
    CommonPatternFound /\ ~InSeq("-", Chars(args.pattern)) =>
        /\ InSeq(format_skill_name(Chars(args.pattern)), ret.skills)
        /\ ParserSkillName(Chars(args.pattern)) = format_skill_name(Chars(args.pattern))

-----------------------------------------------------------------------------
(* The scenario of extract_and_compare                                      *)

\* the scenario has been compared with the pattern pass only
ScenarioCompared ==
    /\ pc = "comparison"
    /\ ~args.nlp
    /\ args.resume_text = ScenarioResume
    /\ args.job_text = ScenarioJob

\* the statement of C16 as written: matching_skills contains the names "Python" and
\* "AWS", missing_skills contains "Kubernetes", and match_percentage is 66.67.
C16_Original ==
    ScenarioCompared =>
        /\ InSeq(Chars("Python"), ret.comparison.matching_skills)
        /\ InSeq(Chars("AWS"), ret.comparison.matching_skills)
        /\ InSeq(Chars("Kubernetes"), ret.comparison.missing_skills)
        /\ ret.comparison.match_percentage = 6667

\* C16 (amended): for a resume whose extracted skills are those of "Python, AWS, Docker"
\* and a job whose extracted skills are those of "Looking for a Python engineer with AWS
\* and Kubernetes experience" (pattern pass only), extract_and_compare yields
\* matching_skills holding the names "Python" and "Aws" (the display name of the pattern
\* aws: each word capitalised), missing_skills holding "Kubernetes", and
\* match_percentage 66.67 (2 of 3 job skills).
C16_Scenario ==
    ScenarioCompared =>
        /\ ret.resume_skills.all_skills = <<Chars("Python"), Chars("Aws"), Chars("Docker")>>
        /\ ret.job_skills.all_skills = <<Chars("Python"), Chars("Aws"), Chars("Kubernetes")>>
        /\ ret.comparison.matching_skills = <<Chars("Python"), Chars("Aws")>>
        /\ ret.comparison.missing_skills = <<Chars("Kubernetes")>>
        /\ ret.comparison.match_percentage = 6667

C16_Witness == ScenarioCompared /\ Len(ret.comparison.matching_skills) = 2

-----------------------------------------------------------------------------
(* The keyword scorer of the Indeed and LinkedIn scanners                   *)

\* s.count(sub) for a non-empty sub: occurrences from left to right, without overlap
RECURSIVE StrCount(_, _, _)
StrCount(sub, s, i) ==
    LET found == {j \in i..(Len(s) - Len(sub) + 1) :
                     \A k \in 1..Len(sub) : s[j + k - 1] = sub[k]}
    IN  IF found = {} THEN 0
        ELSE LET first == CHOOSE j \in found : \A h \in found : j <= h
             IN  1 + StrCount(sub, s, first + Len(sub))

\* experience_terms
ExperienceTerms ==
    <<[term |-> "senior", value |-> -5], [term |-> "lead", value |-> -5],
      [term |-> "principal", value |-> -10], [term |-> "manager", value |-> -5],
      [term |-> "director", value |-> -10], [term |-> "5+ years", value |-> -5],
      [term |-> "7+ years", value |-> -10], [term |-> "10+ years", value |-> -15],
      [term |-> "entry level", value |-> 10], [term |-> "junior", value |-> 10],
      [term |-> "associate", value |-> 5], [term |-> "intern", value |-> 5],
      [term |-> "1-2 years", value |-> 10], [term |-> "no experience", value |-> 15]>>

\* a heuristic score without the boost for "easy apply"
LinkedInBoostLeftOut(description_lower) == 0

\* the boost of the LinkedIn scanner for "easy apply" in the description
LinkedInBoost(description_lower) ==
    IF IsSubstr(Chars("easy apply"), description_lower) THEN 10 ELSE 0

RECURSIVE TitlePoints(_, _)
TitlePoints(keywords_list, title_lower) ==
    IF keywords_list = <<>> THEN 0
    ELSE (IF IsSubstr(keywords_list[1], title_lower) THEN 15 ELSE 0)
         + TitlePoints(Tail(keywords_list), title_lower)

RECURSIVE DescriptionPoints(_, _)
DescriptionPoints(keywords_list, description_lower) ==
    IF keywords_list = <<>> THEN 0
    ELSE Min(StrCount(keywords_list[1], description_lower, 1) * 3, 15)
         + DescriptionPoints(Tail(keywords_list), description_lower)

RECURSIVE ExperiencePoints(_, _)
ExperiencePoints(terms, description_lower) ==
    IF terms = <<>> THEN 0
    ELSE (IF IsSubstr(Chars(terms[1].term), description_lower) THEN terms[1].value ELSE 0)
         + ExperiencePoints(Tail(terms), description_lower)

\* the basic scoring algorithm of _calculate_matching_score
basic_matching_score(scanner, title, description, keywords) ==
    LET keywords_list == Split(Lower(keywords))
        description_lower == Lower(description)
        score == TitlePoints(keywords_list, Lower(title))
                 + DescriptionPoints(keywords_list, description_lower)
                 + ExperiencePoints(ExperienceTerms, description_lower)
                 + (IF scanner = "linkedin" THEN LinkedInBoost(description_lower) ELSE 0)
    IN  Max(0, Min(score, 100))

\* the score when nothing usable comes back from the model
NeutralScore == 50

\* _calculate_ai_matching_score for a reply of the model: an error of the call or of the
\* parsing, or a JSON object with a score ("score") or without one ("no score")
calculate_ai_matching_score(scanner, reply) ==
    IF reply.kind = "error" THEN NeutralScore
    ELSE LET score == IF reply.kind = "no score" THEN NeutralScore ELSE reply.score
         IN  IF scanner = "linkedin" /\ reply.easy_apply THEN Min(score + 10, 100) ELSE score

\* descriptions longer than this go to the model when it is available
AiDescriptionOver == 100

\* a scorer that asks the model about every description when it is available
calculate_matching_score_always_ai(scanner, ai_available, title, description, keywords, reply) ==
    IF ai_available
    THEN [score |-> calculate_ai_matching_score(scanner, reply), ai_calls |-> 1]
    ELSE [score |-> basic_matching_score(scanner, title, description, keywords),
          ai_calls |-> 0]

\* _calculate_matching_score: the score, and the number of calls of the external model
calculate_matching_score(scanner, ai_available, title, description, keywords, reply) ==
    IF ai_available /\ Len(description) > AiDescriptionOver
    THEN [score |-> calculate_ai_matching_score(scanner, reply), ai_calls |-> 1]
    ELSE [score |-> basic_matching_score(scanner, title, description, keywords),
          ai_calls |-> 0]

\* parts of a job description
DescriptionParts ==
    <<Chars("Python python PYTHON python python python"),
      Chars("java"),
      Chars("principal director 10+ years"),
      Chars("entry level junior associate intern 1-2 years no experience"),
      Chars("Easy Apply")>>

\* text without a keyword or a term, longer than AiDescriptionOver
RECURSIVE Padding(_)
Padding(n) == IF n <= 0 THEN <<>> ELSE Chars("work ") \o Padding(n - 5)

ScoredDescriptions ==
    {JoinTokens(DescriptionParts, picked, 1) \o pad :
        picked \in SUBSET (1..Len(DescriptionParts)),
        pad \in {<<>>, <<" ">> \o Padding(AiDescriptionOver + 1)}}

ScoredTitles == {<<>>, Chars("Senior Python Java Developer")}

ScoredKeywords == {<<>>, Chars("Python"), Chars("python  java")}

\* what can come back from the model: an error, or a JSON object whose score may be
\* missing or outside 0..100
AiReplies ==
    {[kind |-> "error", score |-> 0, easy_apply |-> FALSE],
     [kind |-> "no score", score |-> 0, easy_apply |-> FALSE]}
    \cup {[kind |-> "score", score |-> score, easy_apply |-> FALSE] : score \in {-5, 75, 150}}
    \cup {[kind |-> "score", score |-> score, easy_apply |-> TRUE] : score \in {95, 150}}

InitScore ==
    /\ pc = "call"
    /\ IdleFilter
    /\ min_salary = ParseInt(DefaultPayGradeMin).value
    /\ target_location = DefaultLocation
    /\ \E scanner \in {"indeed", "linkedin"}, ai_available \in BOOLEAN,
          title \in ScoredTitles, description \in ScoredDescriptions,
          keywords \in ScoredKeywords :
          args = [scanner |-> scanner, ai_available |-> ai_available, title |-> title,
                  description |-> description, keywords |-> keywords]
    /\ ret = <<>>

\* self._calculate_matching_score(title, description, keywords), called once and again;
\* with each result goes what the model replied when it was asked
CalculateMatchingScore ==
    /\ pc \in {"call", "first"}
    /\ \E reply \in AiReplies :
          LET outcome == calculate_matching_score(args.scanner, args.ai_available,
                             args.title, args.description, args.keywords, reply)
          IN  ret' = Append(ret, [score |-> outcome.score, ai_calls |-> outcome.ai_calls,
                                  reply |-> IF outcome.ai_calls = 1 THEN reply.kind
                                            ELSE "none"])
    /\ pc' = IF pc = "call" THEN "first" ELSE "second"
    /\ UNCHANGED <<environ, min_salary, target_location, resume_text, jobs, jobs_in,
                   filtered_jobs, keyword_calls, raised, args>>

NextScore == CalculateMatchingScore

SpecScore == InitScore /\ [][NextScore]_vars

\* C17: the keyword scorer _calculate_matching_score (Indeed and LinkedIn) returns an
\* integer in [0, 100] for every title, description and keyword string, whichever path
\* produces the value: the heuristic sum, the AI scorer's reply, or the default used
\* after an error.
C17_ScoreInRange ==
    pc \in {"first", "second"} => \A i \in 1..Len(ret) : ret[i].score \in 0..100

\* the part of C17 the code meets: the heuristic score and the default are in [0, 100]
C17_BasicScoreInRange ==
    pc \in {"first", "second"} =>
        /\ \A i \in 1..Len(ret) : ret[i].ai_calls = 0 => ret[i].score \in 0..100
        /\ NeutralScore \in 0..100

\* the sum of f[i] for i in 1..n
RECURSIVE SumTo(_, _)
SumTo(f, n) == IF n = 0 THEN 0 ELSE f[n] + SumTo(f, n - 1)

\* the sum S of C18 for the call of a state: title points, description points and the
\* delta of every experience phrase in the description
ClaimedSum ==
    LET keywords_list == Split(Lower(args.keywords))
        title == Lower(args.title)
        description == Lower(args.description)
        keyword_points ==
            [i \in 1..Len(keywords_list) |->
                (IF IsSubstr(keywords_list[i], title) THEN 15 ELSE 0)
                + Min(3 * StrCount(keywords_list[i], description, 1), 15)]
        phrase_points ==
            [i \in 1..Len(ExperienceTerms) |->
                IF IsSubstr(Chars(ExperienceTerms[i].term), description)
                THEN ExperienceTerms[i].value ELSE 0]
    IN  SumTo(keyword_points, Len(keywords_list)) + SumTo(phrase_points, Len(ExperienceTerms))

\* the first call took the heuristic path
HeuristicPathTaken == pc \in {"first", "second"} /\ ret[1].ai_calls = 0

\* the statement of C18 as written: on the heuristic path the score equals
\* max(0, min(100, S)), S being the sum over the keywords of 15 for a keyword in the
\* title plus min(3 * count, 15) for its occurrences in the description, plus the delta
\* of every experience phrase of the table that occurs in the description.
C18_Original == HeuristicPathTaken => ret[1].score = Max(0, Min(100, ClaimedSum))

\* C18 (amended): on the heuristic path the Indeed score equals max(0, min(100, S)),
\* where S is the sum over the whitespace-split lowercased keywords of 15 if the keyword
\* is a substring of the lowercased title, plus min(3 * count, 15) for its number of
\* occurrences (counted from the left without overlap) in the lowercased description,
\* plus the signed delta of every experience phrase of the fixed table that occurs in
\* the description; the LinkedIn score equals max(0, min(100, S + 10)) when the
\* lowercased description holds "easy apply", and max(0, min(100, S)) otherwise.
C18_HeuristicScore ==
    HeuristicPathTaken =>
        LET boost == IF args.scanner = "linkedin"
                        /\ IsSubstr(Chars("easy apply"), Lower(args.description))
                     THEN 10 ELSE 0
        IN  ret[1].score = Max(0, Min(100, ClaimedSum + boost))

\* a LinkedIn score strictly inside the range that holds the boost for "easy apply"
C18_Witness ==
    /\ HeuristicPathTaken
    /\ args.scanner = "linkedin"
    /\ IsSubstr(Chars("easy apply"), Lower(args.description))
    /\ ret[1].score = ClaimedSum + 10
    /\ ret[1].score \in 26..99

HeuristicScore ==
    basic_matching_score(args.scanner, args.title, args.description, args.keywords)

\* C25: when the AI scorer is enabled and AI scoring fails (the API call raises or its
\* reply cannot be parsed), _calculate_matching_score falls back to the basic algorithm
\* and returns the heuristic keyword score computed from title, description and keywords.
C25_FallsBackToHeuristic ==
    \A i \in 1..Len(ret) : ret[i].reply = "error" => ret[i].score = HeuristicScore

\* what holds: after a failure of the AI scoring the score is the neutral 50, whatever
\* the heuristic score of the posting is
C25_NeutralAfterFailure ==
    \A i \in 1..Len(ret) : ret[i].reply = "error" => ret[i].score = NeutralScore

-----------------------------------------------------------------------------
(* The resume keyword set on its own                                        *)

\* most words of a resume text drawn from ResumeWords
MaxTextWords == 4

\* a term, a second term, a stop word, a short term, and the first term with a capital
\* and a comma
ResumeWords == {"sql", "aws", "the", "go", "Sql,"}

\* the i-th of a row of distinct terms
NumberedTerm(i) == <<"k", DigitSeq[(i \div 10) + 1], DigitSeq[(i % 10) + 1]>>

\* a text of n distinct terms, the last of them said twice
RowOfTerms(n) ==
    JoinWith([i \in 1..(n + 1) |-> NumberedTerm(IF i <= n THEN i ELSE n)], <<" ">>)

ExtractTexts ==
    {TextOf(words) : words \in UNION {[1..n -> ResumeWords] : n \in 0..MaxTextWords}}
    \cup {RowOfTerms(DefaultMaxKeywords), RowOfTerms(DefaultMaxKeywords + 1)}

InitExtract ==
    /\ pc = "call"
    /\ IdleFilter
    /\ min_salary = ParseInt(DefaultPayGradeMin).value
    /\ target_location = DefaultLocation
    /\ \E text \in ExtractTexts, max_keywords \in {1, 2, DefaultMaxKeywords} :
          args = [text |-> text, max_keywords |-> max_keywords]
    /\ ret = None

\* self._extract_keywords_from_text(resume_text)
ExtractKeywords ==
    /\ pc = "call"
    /\ ret' = extract_keywords_from_text(args.text, args.max_keywords)
    /\ pc' = "ret"
    /\ UNCHANGED <<environ, min_salary, target_location, resume_text, jobs, jobs_in,
                   filtered_jobs, keyword_calls, raised, args>>

NextExtract == ExtractKeywords

SpecExtract == InitExtract /\ [][NextExtract]_vars

\* the terms of the text of a state: lowercased, punctuation removed, split at whitespace
TermsOfText == Split(RemoveChars(Lower(args.text), Punctuation))

\* the number of times a term occurs in the text
Occurrences(term) == Cardinality({i \in 1..Len(TermsOfText) : TermsOfText[i] = term})

\* the terms that may be keywords: no stop word, longer than 2
EligibleTerms == {t \in Range(TermsOfText) : Join(t) \notin StopWords /\ Len(t) > 2}

\* C20: the resume keyword set computed by _extract_keywords_from_text has at most 30
\* entries (max_keywords), contains no entry twice, contains no stop-word and no term of
\* length <= 2, and holds the terms with the highest occurrence counts in the resume
\* text: no term left out occurs more often than a term that was kept.
C20_KeywordSet ==
    pc = "ret" =>
        /\ Len(ret) <= args.max_keywords
        /\ Len(ret) <= DefaultMaxKeywords
        /\ \A i, j \in 1..Len(ret) : ret[i] = ret[j] => i = j
        /\ Range(ret) \subseteq EligibleTerms
        /\ Len(ret) = Min(args.max_keywords, Cardinality(EligibleTerms))
        /\ \A out \in EligibleTerms \ Range(ret) :
              \A kept \in Range(ret) : Occurrences(out) <= Occurrences(kept)

\* thirty keywords were kept and a term was left out, and the term said twice is kept
C20_Witness ==
    /\ pc = "ret"
    /\ Len(ret) = DefaultMaxKeywords
    /\ EligibleTerms \ Range(ret) # {}
    /\ \E kept \in Range(ret) : Occurrences(kept) = 2

-----------------------------------------------------------------------------
(* ResumeParser._extract_experience                                         *)

\* a group of a pattern: its alternatives in the order of the pattern, and whether the
\* group may be left out
Group(alts, optional) ==
    [alts |-> [j \in 1..Len(alts) |-> Chars(alts[j])], optional |-> optional, run |-> {}]

\* a group that is one or more characters of a class, as many as there are
Run(class) == [alts |-> <<>>, optional |-> FALSE, run |-> class]

\* \s?
OptionalSpace == Group(<<" ", "\n", "\t">>, TRUE)

\* job_patterns: each is a row of groups

JobPatterns ==
    << <<Group(<<"Senior", "Junior", "Lead", "Principal", "Staff", "Chief">>, TRUE),
         OptionalSpace,
         Group(<<"Software", "Developer", "Frontend", "Backend", "Full Stack",
                     "Full-Stack", "Web", "Mobile", "iOS", "Android", "Cloud", "DevOps",
                     "ML", "AI", "Data", "QA", "Test", "Project", "Product", "Program",
                     "Technical", "Solutions", "Systems", "Security", "Network",
                     "Database", "Infrastructure">>, FALSE),
         OptionalSpace,
         Group(<<"Engineer", "Developer", "Architect", "Specialist", "Analyst",
                     "Scientist", "Manager", "Lead", "Consultant", "Administrator">>, FALSE)>>,
       <<Group(<<"Director", "VP", "Vice President", "Manager", "Head">>, FALSE),
         OptionalSpace,
         Group(<<"of", ",">>, TRUE),
         OptionalSpace,
         Group(<<"Engineering", "Software", "Development", "Technology", "IT",
                     "Product", "Program", "Project">>, FALSE)>> >>

\* the match of the groups k.. of a pattern that begins at offset p: p and the offsets
\* at which the groups end, or the empty list when there is no match.  The alternatives
\* of a group are tried in order, leaving the group out comes last; a run is only used
\* as the last group, where it never has to give characters back.
RECURSIVE GroupEnds(_, _, _, _)
GroupEnds(groups, k, text, p) ==
    IF k > Len(groups) THEN <<p>>
    ELSE IF groups[k].run # {}
    THEN LET end == AfterRun(text, p, groups[k].run)
         IN  IF end > p THEN <<p>> \o GroupEnds(groups, k + 1, text, end) ELSE <<>>
    ELSE LET alts == groups[k].alts
             EndsWith(j) == IF WordAt(text, p, alts[j])
                            THEN GroupEnds(groups, k + 1, text, p + Len(alts[j]))
                            ELSE <<>>
             good == {j \in 1..Len(alts) : EndsWith(j) # <<>>}
             rest == IF good # {} THEN EndsWith(Least(good))
                     ELSE IF groups[k].optional THEN GroupEnds(groups, k + 1, text, p)
                     ELSE <<>>
         IN  IF rest = <<>> THEN <<>> ELSE <<p>> \o rest

\* re.finditer(pattern, text): the matches from left to right, each beginning where
\* the one before ended or later; ends[k + 1] is the offset at which group k ends
RECURSIVE FindIter(_, _, _)
FindIter(groups, text, from) ==
    LET starts == {p \in from..(Len(text) - 1) : GroupEnds(groups, 1, text, p) # <<>>}
    IN  IF starts = {} THEN <<>>
        ELSE LET start == Least(starts)
                 ends == GroupEnds(groups, 1, text, start)
                 end == ends[Len(ends)]
             IN  <<[start |-> start, end |-> end, ends |-> ends]>>
                 \o FindIter(groups, text, end)

\* the characters of the class [A-Za-z0-9\s&.,]
CompanyChars == Letters \cup Digits \cup Whitespace \cup {"&", ".", ","}

\* at\s+([A-Za-z0-9\s&.,]+) at offset p: the offset group(1) begins at, or -1.  \s+ takes the whole run of
\* whitespace and gives back what it must for the group to get its first character.
CompanyAt(text, p) ==
    IF ~WordAt(text, p, <<"a", "t">>) THEN -1
    ELSE LET run == AfterRun(text, p + 2, Whitespace)
             begins == {q \in (p + 3)..run : q < Len(text) /\ text[q + 1] \in CompanyChars}
         IN  IF begins = {} THEN -1 ELSE Greatest(begins)

\* company_match.group(1).strip() if company_match else 'Unknown Company'
Company(surrounding_text) ==
    LET found == {p \in 0..(Len(surrounding_text) - 1) :
                     CompanyAt(surrounding_text, p) # -1}
    IN  IF found = {} THEN Chars("Unknown Company")
        ELSE LET q == CompanyAt(surrounding_text, Least(found))
             IN  Strip(Slice(surrounding_text, q,
                             AfterRun(surrounding_text, q, CompanyChars)))

Months ==
    {"Jan", "Feb", "Mar", "Apr", "May", "Jun", "Jul", "Aug", "Sep", "Oct", "Nov", "Dec"}

LowerLetters == {UpperToLower[c] : c \in DOMAIN UpperToLower}

\* (Jan|...|Dec)[a-z]*\.?\s+\d{4} at offset p: the offset after it, or -1
MonthYearEnd(text, p) ==
    IF ~\E m \in Months : WordAt(text, p, Chars(m)) THEN -1
    ELSE LET name == AfterRun(text, p + 3, LowerLetters)
             dot == IF name < Len(text) /\ text[name + 1] = "." THEN name + 1 ELSE name
             space == AfterRun(text, dot, Whitespace)
         IN  IF space > dot /\ space + 4 <= Len(text)
                /\ \A k \in 1..4 : text[space + k] \in Digits
             THEN space + 4
             ELSE -1

\* date_pattern at offset p: the offset after the match, or -1.  Of the dashes of the
\* pattern the hyphen is modelled; no modelled text holds the en dash or the em dash.
DateEnd(text, p) ==
    LET first == MonthYearEnd(text, p)
        dash == IF first = -1 THEN -1 ELSE AfterRun(text, first, Whitespace)
        second == IF dash # -1 /\ dash < Len(text) /\ text[dash + 1] = "-"
                  THEN MonthYearEnd(text, AfterRun(text, dash + 1, Whitespace))
                  ELSE -1
    IN  IF second # -1 THEN second
        ELSE IF WordAt(text, p, Chars("Present")) \/ WordAt(text, p, Chars("Current"))
        THEN p + 7
        ELSE -1

\* date_match.group() if date_match else 'Unknown Dates'
Dates(surrounding_text) ==
    LET found == {p \in 0..(Len(surrounding_text) - 1) : DateEnd(surrounding_text, p) # -1}
    IN  IF found = {} THEN Chars("Unknown Dates")
        ELSE LET p == Least(found) IN Slice(surrounding_text, p, DateEnd(surrounding_text, p))

\* the characters that begin a bullet; the bullet sign itself, which no modelled text
\* holds, is left out
BulletSigns == {"-", "*"}

\* the characters of the modelled texts
TextChars == Letters \cup Digits \cup Punctuation \cup Whitespace

\* [^\-*\n], the bullet sign left out likewise
BulletTextChars == (TextChars \ BulletSigns) \ {"\n"}

\* [\-*]\s+([^\-*\n]+) at offset p: the offset group(1) begins at, or -1.  \s+ takes the
\* whole run of whitespace and gives back what it must for the group to get its first
\* character.
BulletAt(text, p) ==
    IF ~(p < Len(text) /\ text[p + 1] \in BulletSigns) THEN -1
    ELSE LET run == AfterRun(text, p + 1, Whitespace)
             begins == {q \in (p + 2)..run :
                           q < Len(text) /\ text[q + 1] \in BulletTextChars}
         IN  IF begins = {} THEN -1 ELSE Greatest(begins)

\* re.finditer of the bullet pattern: group(1).strip() of every match, from offset from on
RECURSIVE BulletMatches(_, _)
BulletMatches(text, from) ==
    LET found == {p \in from..(Len(text) - 1) : BulletAt(text, p) # -1}
    IN  IF found = {} THEN <<>>
        ELSE LET start == BulletAt(text, Least(found))
                 end == AfterRun(text, start, BulletTextChars)
             IN  <<Strip(Slice(text, start, end))>> \o BulletMatches(text, end)

\* "Limit to 3 bullet points"
MaxBullets == 3

\* the bullets of an entry taken from bullet_section
BulletsOf(bullet_section) ==
    LET all == BulletMatches(bullet_section, 0)
    IN  SubSeq(all, 1, Min(MaxBullets, Len(all)))

\* the window of surrounding_text on either side of the match
SurroundingChars == 100

\* bullet_section of the code: surrounding_text is cut at the offset the match ends at in
\* experience_section
BulletSection(surrounding_text, match) == SliceFrom(surrounding_text, match.end)

\* the entry for one match of a job pattern
ExperienceEntry(experience_section, match) ==
    LET window_start == Max(0, match.start - SurroundingChars)
        surrounding_text ==
            Slice(experience_section, window_start,
                  Min(Len(experience_section), match.end + SurroundingChars))
    IN  [title |-> Slice(experience_section, match.start, match.end),
         company |-> Company(surrounding_text),
         dates |-> Dates(surrounding_text),
         responsibilities |->
             BulletsOf(BulletSection(surrounding_text, match))]

\* the entries of every pattern in turn
RECURSIVE ExperienceOf(_, _)
ExperienceOf(patterns, experience_section) ==
    IF patterns = <<>> THEN <<>>
    ELSE LET matches == FindIter(patterns[1], experience_section, 0)
         IN  [i \in 1..Len(matches) |-> ExperienceEntry(experience_section, matches[i])]
             \o ExperienceOf(Tail(patterns), experience_section)

\* ResumeParser._extract_experience
extract_experience(text) ==
    ExperienceOf(JobPatterns, SectionOrText(text, ExperienceSectionNames))

-----------------------------------------------------------------------------
(* _extract_experience on its own                                           *)

\* text before the title: nothing, or filler of so many characters
LeadLengths == {0, 60, 100, 105, 160}

\* an earlier job, which may stand before the filler
EarlierJob == Chars("Data Analyst at Initech\n* made charts\n")

JobTitles == {Chars("Software Engineer"), Chars("Director of Engineering")}

\* the line after the title
JobDetails ==
    {<<>>, Chars("at Acme Corp, Present\n"), Chars("at Acme Jan 2020 - Feb. 2021\n")}

\* the bullet lines under the title
JobBullets ==
    <<Chars("- built apis\n"), Chars("* led team\n"), Chars("-  wrote tests\n"),
      Chars("- shipped it\n")>>

RECURSIVE Concat(_)
Concat(parts) == IF parts = <<>> THEN <<>> ELSE parts[1] \o Concat(Tail(parts))

ExperienceTexts ==
    {(IF header THEN Chars("Experience\n") ELSE <<>>)
     \o (IF earlier THEN EarlierJob ELSE <<>>)
     \o Padding(lead) \o title \o <<"\n">> \o details
     \o Concat(SubSeq(JobBullets, 1, bullets)) :
        header \in BOOLEAN, earlier \in BOOLEAN, lead \in LeadLengths,
        title \in JobTitles, details \in JobDetails, bullets \in 0..Len(JobBullets)}

InitExperience ==
    /\ pc = "call"
    /\ IdleFilter
    /\ min_salary = ParseInt(DefaultPayGradeMin).value
    /\ target_location = DefaultLocation
    /\ \E text \in ExperienceTexts : args = [text |-> text]
    /\ ret = None

\* self._extract_experience(text)
ExtractExperience ==
    /\ pc = "call"
    /\ ret' = extract_experience(args.text)
    /\ pc' = "ret"
    /\ UNCHANGED <<environ, min_salary, target_location, resume_text, jobs, jobs_in,
                   filtered_jobs, keyword_calls, raised, args>>

NextExperience == ExtractExperience

SpecExperience == InitExperience /\ [][NextExperience]_vars

\* the text _extract_experience scans, and the title matches in it in the order of the
\* entries
ScannedExperience == SectionOrText(args.text, ExperienceSectionNames)

TitleMatches ==
    FindIter(JobPatterns[1], ScannedExperience, 0)
    \o FindIter(JobPatterns[2], ScannedExperience, 0)

\* the first bullets of the text that follows the end of a title match, as far as the
\* window of the entry reaches
FollowingBullets(match) ==
    BulletsOf(Slice(ScannedExperience, match.end, match.end + SurroundingChars))

C21_TitleNearStart ==
    pc = "ret" =>
        LET matches == TitleMatches
        IN  /\ Len(ret) = Len(matches)
            /\ \A i \in 1..Len(ret) :
                  /\ Len(ret[i].responsibilities) <= MaxBullets
                  /\ matches[i].start <= SurroundingChars =>
                        ret[i].responsibilities = FollowingBullets(matches[i])

-----------------------------------------------------------------------------
(* ResumeParser._extract_education                                          *)

\* \s
OneSpace == Group(<<" ", "\n", "\t">>, FALSE)

\* (?:in|of)?
InOrOf == Group(<<"in", "of">>, TRUE)

\* ([^,\n]+)
FieldOfStudy == Run(TextChars \ {",", "\n"})

\* a degree pattern with a field of study
DegreeWithField(names) == <<Group(names, FALSE), OneSpace, InOrOf, OptionalSpace, FieldOfStudy>>

\* degree_patterns, in lower case since they are matched with re.IGNORECASE; a group
\* such as B\.?S\.? is written as its alternatives in the order in which they are tried
DegreePatterns ==
    <<DegreeWithField(<<"b.s.", "b.s", "bs.", "bs", "bachelor of science", "bachelor's",
                        "bachelor'", "bachelors", "bachelor">>),
      DegreeWithField(<<"b.a.", "b.a", "ba.", "ba", "bachelor of arts", "bachelor's",
                        "bachelor'", "bachelors", "bachelor">>),
      DegreeWithField(<<"m.s.", "m.s", "ms.", "ms", "master of science", "master's",
                        "master'", "masters", "master">>),
      DegreeWithField(<<"m.a.", "m.a", "ma.", "ma", "master of arts", "master's",
                        "master'", "masters", "master">>),
      DegreeWithField(<<"ph.d.", "ph.d", "phd.", "phd", "doctor of philosophy",
                        "doctorate">>),
      <<Group(<<"mba", "master of business administration">>, FALSE)>>,
      <<Group(<<"md", "doctor of medicine">>, FALSE)>>,
      <<Group(<<"jd", "juris doctor", "doctor of law">>, FALSE)>> >>

\* [A-Za-z\s]
NameChars == Letters \cup Whitespace

\* university_patterns: the word that comes first in a pattern such as
\* (University of [A-Za-z\s]+), or the word that comes last in one such as
\* ([A-Za-z\s]+) University
UniversityPatterns ==
    <<[first |-> Chars("University of "), last |-> <<>>],
      [first |-> <<>>, last |-> Chars(" University")],
      [first |-> <<>>, last |-> Chars(" College")],
      [first |-> Chars("College of "), last |-> <<>>],
      [first |-> Chars("Institute of "), last |-> <<>>],
      [first |-> <<>>, last |-> Chars(" Institute")]>>

\* the offset at which group(1) of a university pattern ends when it begins at offset p,
\* or -1.  The run of name characters is as long as it can be and gives characters back
\* until the last word of the pattern follows.
UniversityEnd(pattern, text, p) ==
    IF pattern.first # <<>>
    THEN IF WordAt(text, p, pattern.first)
         THEN LET from == p + Len(pattern.first)
                  end == AfterRun(text, from, NameChars)
              IN  IF end > from THEN end ELSE -1
         ELSE -1
    ELSE LET ends == {q \in (p + 1)..AfterRun(text, p, NameChars) :
                         WordAt(text, q, pattern.last)}
         IN  IF ends = {} THEN -1 ELSE Greatest(ends)

\* uni_match.group(1) of the first pattern that is found, or 'Unknown University'
RECURSIVE University(_, _)
University(patterns, surrounding_text) ==
    IF patterns = <<>> THEN Chars("Unknown University")
    ELSE LET found == {p \in 0..(Len(surrounding_text) - 1) :
                          UniversityEnd(patterns[1], surrounding_text, p) # -1}
         IN  IF found = {} THEN University(Tail(patterns), surrounding_text)
             ELSE LET p == Least(found)
                  IN  Slice(surrounding_text, p,
                            UniversityEnd(patterns[1], surrounding_text, p))

\* (19|20)\d{2}, or 'Present'
Year(surrounding_text) ==
    LET found == {p \in 0..(Len(surrounding_text) - 4) :
                     /\ WordAt(surrounding_text, p, Chars("19"))
                        \/ WordAt(surrounding_text, p, Chars("20"))
                     /\ surrounding_text[p + 3] \in Digits
                     /\ surrounding_text[p + 4] \in Digits}
    IN  IF found = {} THEN Chars("Present")
        ELSE Slice(surrounding_text, Least(found), Least(found) + 4)

\* the entry for one match of a degree pattern
EducationEntry(education_section, match) ==
    LET surrounding_text ==
            Slice(education_section, Max(0, match.start - SurroundingChars),
                  Min(Len(education_section), match.end + SurroundingChars))
        degree_type == Slice(education_section, match.ends[1], match.ends[2])
        field == IF Len(match.ends) > 2
                 THEN Slice(education_section, match.ends[Len(match.ends) - 1], match.end)
                 ELSE <<>>
    IN  [degree |-> Strip(degree_type \o <<" ">> \o field),
         university |-> University(UniversityPatterns, surrounding_text),
         year |-> Year(surrounding_text)]

RECURSIVE EducationOf(_, _)
EducationOf(patterns, education_section) ==
    IF patterns = <<>> THEN <<>>
    ELSE LET matches == FindIter(patterns[1], Lower(education_section), 0)
         IN  [i \in 1..Len(matches) |-> EducationEntry(education_section, matches[i])]
             \o EducationOf(Tail(patterns), education_section)

\* ResumeParser._extract_education
extract_education(text) ==
    EducationOf(DegreePatterns, SectionOrText(text, EducationSectionNames))

-----------------------------------------------------------------------------
(* ResumeParser._extract_contact_info                                       *)

\* the first offset of a set of offsets at which a pattern matches, or -1
FirstOf(found) == IF found = {} THEN -1 ELSE Least(found)

\* [A-Za-z0-9._%+-]
EmailNameChars == Letters \cup Digits \cup {".", "_", "%", "+", "-"}

\* [A-Za-z0-9.-]
EmailDomainChars == Letters \cup Digits \cup {".", "-"}

\* [A-Z|a-z]
EmailEndingChars == Letters \cup {"|"}

\* email_pattern at offset p: the offset after the match, or -1.  The domain is as long
\* as it can be and gives characters back until a dot, two or more ending characters
\* and a word boundary follow; the ending is as long as it can be.
EmailEnd(text, p) ==
    LET at == AfterRun(text, p, EmailNameChars)
    IN  IF ~(IsBoundary(text, p) /\ at > p /\ at < Len(text) /\ text[at + 1] = "@") THEN -1
        ELSE LET domain == AfterRun(text, at + 1, EmailDomainChars)
                 EndAfter(dot) ==
                     LET ends == {e \in (dot + 3)..AfterRun(text, dot + 1, EmailEndingChars) :
                                     IsBoundary(text, e)}
                     IN  IF ends = {} THEN -1 ELSE Greatest(ends)
                 dots == {dot \in (at + 2)..(domain - 1) :
                             text[dot + 1] = "." /\ EndAfter(dot) # -1}
             IN  IF dots = {} THEN -1 ELSE EndAfter(Greatest(dots))

\* the match of a pattern searched from the left, group() or '': ends[q] is the offset
\* at which the match that starts at offset q ends, -1 where none starts
Found(text, ends) ==
    LET p == FirstOf({q \in DOMAIN ends : ends[q] # -1})
    IN  IF p = -1 THEN <<>> ELSE Slice(text, p, ends[p])

\* the offsets of the characters of text
Offsets(text) == 0..(Len(text) - 1)

\* three digits at offset p that may be an area code:
\* [2-9]1[02-9]|[2-9][02-8]1|[2-9][02-8][02-9]
IsAreaCode(text, p) ==
    /\ p + 3 <= Len(text)
    /\ text[p + 1] \in Digits \ {"0", "1"}
    /\ \/ text[p + 2] = "1" /\ text[p + 3] \in Digits \ {"1"}
       \/ text[p + 2] \in Digits \ {"1", "9"} /\ text[p + 3] \in Digits

\* three digits at offset p that may be an exchange:
\* [2-9]1[02-9]|[2-9][02-9]1|[2-9][02-9]{2}
IsExchange(text, p) ==
    /\ p + 3 <= Len(text)
    /\ text[p + 1] \in Digits \ {"0", "1"}
    /\ \/ text[p + 2] = "1" /\ text[p + 3] \in Digits \ {"1"}
       \/ text[p + 2] \in Digits \ {"1"} /\ text[p + 3] \in Digits

\* \s*(?:[.-]\s*)? at offset p: the offset after it
AfterSeparator(text, p) ==
    LET q == AfterRun(text, p, Whitespace)
    IN  IF q < Len(text) /\ text[q + 1] \in {".", "-"}
        THEN AfterRun(text, q + 1, Whitespace)
        ELSE q

\* the exchange, a separator and four digits at offset p: the offset after them, or -1
LocalNumberEnd(text, p) ==
    IF p = -1 \/ ~IsExchange(text, p) THEN -1
    ELSE LET q == AfterSeparator(text, p + 3)
         IN  IF q + 4 <= Len(text) /\ \A k \in 1..4 : text[q + k] \in Digits
             THEN q + 4
             ELSE -1

\* the area code, in parentheses or bare, and a separator at offset p: the offset after
\* them, or -1
AreaCodeEnd(text, p) ==
    IF p = -1 \/ p >= Len(text) THEN -1
    ELSE IF text[p + 1] = "("
    THEN LET q == AfterRun(text, p + 1, Whitespace)
             r == AfterRun(text, q + 3, Whitespace)
         IN  IF IsAreaCode(text, q) /\ r < Len(text) /\ text[r + 1] = ")"
             THEN AfterSeparator(text, r + 1)
             ELSE -1
    ELSE IF IsAreaCode(text, p) THEN AfterSeparator(text, p + 3)
    ELSE -1

\* \+?1 and a separator at offset p: the offset after them, or -1
CountryCodeEnd(text, p) ==
    LET q == IF p < Len(text) /\ text[p + 1] = "+" THEN p + 1 ELSE p
    IN  IF q < Len(text) /\ text[q + 1] = "1" THEN AfterSeparator(text, q + 1) ELSE -1

\* the markers of an extension, in the order in which they are tried
ExtensionMarkers == <<"#", "x.", "x", "ext.", "ext", "extension">>

\* (?:\s*(?:#|x\.?|ext\.?|extension)\s*(\d+))? at offset p: the offset after it
AfterExtension(text, p) ==
    LET q == AfterRun(text, p, Whitespace)
        NumberAfter(m) ==
            IF WordAt(text, q, Chars(ExtensionMarkers[m]))
            THEN AfterRun(text, q + Len(ExtensionMarkers[m]), Whitespace)
            ELSE Len(text)
        good == {m \in 1..Len(ExtensionMarkers) :
                    NumberAfter(m) < Len(text) /\ text[NumberAfter(m) + 1] \in Digits}
    IN  IF good = {} THEN p ELSE AfterRun(text, NumberAfter(Least(good)), Digits)

\* phone_pattern at offset p: the offset after the match, or -1.  The country code and
\* the area code are used when the rest of the number follows them, and left out
\* otherwise.
PhoneEnd(text, p) ==
    LET with_country == LocalNumberEnd(text, AreaCodeEnd(text, CountryCodeEnd(text, p)))
        with_area == LocalNumberEnd(text, AreaCodeEnd(text, p))
        bare == LocalNumberEnd(text, p)
        number == IF with_country # -1 THEN with_country
                  ELSE IF with_area # -1 THEN with_area
                  ELSE bare
    IN  IF number = -1 THEN -1 ELSE AfterExtension(text, number)

\* [a-zA-Z0-9-]
ProfileChars == Letters \cup Digits \cup {"-"}

\* a fixed beginning and one or more profile characters at offset p
ProfileEnd(beginning, text, p) ==
    LET from == p + Len(beginning)
    IN  IF WordAt(text, p, beginning) /\ AfterRun(text, from, ProfileChars) > from
        THEN AfterRun(text, from, ProfileChars)
        ELSE -1

\* linkedin_pattern and github_pattern
LinkedInEnd(text, p) == ProfileEnd(Chars("linkedin.com/in/"), text, p)

GitHubEnd(text, p) == ProfileEnd(Chars("github.com/"), text, p)

\* portfolio_pattern at offset p: with or without www. the match ends where the run of
\* [a-zA-Z0-9-.] after the first dot of the host ends
UrlEnd(text, p) ==
    LET host == IF WordAt(text, p, Chars("https://")) THEN p + 8
                ELSE IF WordAt(text, p, Chars("http://")) THEN p + 7
                ELSE -1
    IN  IF host = -1 THEN -1
        ELSE LET dot == AfterRun(text, host, ProfileChars)
                 end == AfterRun(text, dot + 1, ProfileChars \cup {"."})
             IN  IF dot > host /\ dot < Len(text) /\ text[dot + 1] = "." /\ end > dot + 1
                 THEN end
                 ELSE -1

\* re.findall(portfolio_pattern, text) from offset from on
RECURSIVE Urls(_, _)
Urls(text, from) ==
    LET p == FirstOf({q \in from..(Len(text) - 1) : UrlEnd(text, q) # -1})
    IN  IF p = -1 THEN <<>>
        ELSE <<Slice(text, p, UrlEnd(text, p))>> \o Urls(text, UrlEnd(text, p))

\* the first URL that is neither a LinkedIn nor a GitHub address, or ''
Portfolio(text) ==
    LET urls == Urls(text, 0)
        own == {i \in 1..Len(urls) :
                   /\ ~IsSubstr(Chars("linkedin.com"), urls[i])
                   /\ ~IsSubstr(Chars("github.com"), urls[i])}
    IN  IF own = {} THEN <<>> ELSE urls[Least(own)]

\* the number of searches of _extract_contact_info
ContactSteps == 5

\* ResumeParser._extract_contact_info, where the search number failing raises (none
\* does for failing = 0): the fields found before it are kept, the others stay ''
extract_contact_info(text, failing) ==
    LET Reached(step) == failing = 0 \/ step < failing
    IN  [name |-> <<>>,
         email |-> IF Reached(1)
                  THEN Found(text, [q \in Offsets(text) |-> EmailEnd(text, q)])
                  ELSE <<>>,
         phone |-> IF Reached(2)
                  THEN Found(text, [q \in Offsets(text) |-> PhoneEnd(text, q)])
                  ELSE <<>>,
         linkedin |-> IF Reached(3)
                     THEN Found(text, [q \in Offsets(text) |-> LinkedInEnd(text, q)])
                     ELSE <<>>,
         github |-> IF Reached(4)
                   THEN Found(text, [q \in Offsets(text) |-> GitHubEnd(text, q)])
                   ELSE <<>>,
         portfolio |-> IF Reached(5) THEN Portfolio(text) ELSE <<>>]

-----------------------------------------------------------------------------
(* ResumeParser.parse                                                       *)

\* re.sub(r'\s+', ' ', text).strip() of _extract_text
extract_text(document) == JoinWith(Split(document), <<" ">>)

\* a sub-extractor that raises no exception
NoFailure == [contact |-> 0, skills |-> FALSE, education |-> FALSE, experience |-> FALSE]

\* the passing of an exception that escapes a sub-extractor
TryExceptLeftOut(fails, value, default) ==
    [raised |-> fails, value |-> IF fails THEN default ELSE value]

\* try: ... return value; except Exception: return default
TryExcept(fails, value, default) ==
    [raised |-> FALSE, value |-> IF fails THEN default ELSE value]

\* what parse returns for the outcomes of the four sub-extractors: the result dict, or
\* the exception that escaped one of them
ParseResult(contact_info, skills, education, experience, text) ==
    IF contact_info.raised \/ skills.raised \/ education.raised \/ experience.raised
    THEN [raised |-> "Exception", result |-> <<>>]
    ELSE [raised |-> "none",
          result |-> [contact_info |-> contact_info.value,
                      skills |-> skills.value,
                      education |-> education.value,
                      experience |-> experience.value,
                      raw_text |-> text]]

\* the dict literal of parse: each sub-extractor is called once on the text, in the
\* order of the keys
StructuredInformation(text, failing) ==
    CHOOSE outcome \in
        {ParseResult(contact_info, skills, education, experience, text) :
            contact_info \in {TryExcept(failing.contact # 0, extract_contact_info(text, 0),
                                        extract_contact_info(text, failing.contact))},
            skills \in {TryExcept(failing.skills, parser_extract_skills(text), <<>>)},
            education \in {TryExcept(failing.education, extract_education(text), <<>>)},
            experience \in {TryExcept(failing.experience, extract_experience(text), <<>>)}} :
        TRUE

\* ResumeParser.parse for a path that exists or not, a file whose text can be extracted
\* or not, the text of the document, and the sub-extractors in which something raises;
\* the text is extracted once and handed to the sub-extractors
parse(exists, readable, document, failing) ==
    IF ~exists THEN [raised |-> "FileNotFoundError", result |-> <<>>]
    ELSE IF ~readable THEN [raised |-> "Exception", result |-> <<>>]
    ELSE CHOOSE outcome \in {StructuredInformation(text, failing) :
                                 text \in {extract_text(document)}} : TRUE

\* the parts of a resume document
ContactLines ==
    Chars("Jane Doe\njane.doe@mail.com | (212) 555-1234\n")
    \o Chars("linkedin.com/in/jane-doe github.com/jdoe https://jane.dev\n")

SkillsLines == Chars("Skills\nPython, Docker\n")

EducationLines == Chars("Education\nB.S. in Computer Science, Stanford University 2015\n")

ExperienceLines ==
    Chars("Experience\nSoftware Engineer at Acme Corp\n- built apis in java\n* led team\n")

ResumeParts == <<ContactLines, SkillsLines, EducationLines, ExperienceLines>>

Documents ==
    {Concat([i \in 1..Len(ResumeParts) |-> IF i \in picked THEN ResumeParts[i] ELSE <<>>]) :
        picked \in SUBSET (1..Len(ResumeParts))}

\* nothing raises, one search of the contact information does, one of the other
\* sub-extractors does, or all of them do
Failures ==
    {NoFailure}
    \cup {[NoFailure EXCEPT !.contact = step] : step \in 1..ContactSteps}
    \cup {[NoFailure EXCEPT !.skills = TRUE], [NoFailure EXCEPT !.education = TRUE],
          [NoFailure EXCEPT !.experience = TRUE]}
    \cup {[contact |-> 1, skills |-> TRUE, education |-> TRUE, experience |-> TRUE]}

InitParse ==
    /\ pc = "call"
    /\ IdleFilter
    /\ min_salary = ParseInt(DefaultPayGradeMin).value
    /\ target_location = DefaultLocation
    /\ \E document \in Documents, failing \in Failures, exists \in BOOLEAN,
          readable \in BOOLEAN :
          /\ (~exists \/ ~readable) => failing = NoFailure
          /\ ~exists => readable
          /\ args = [exists |-> exists, readable |-> readable, document |-> document,
                     failing |-> failing]
    /\ ret = None

\* parser.parse(resume_path)
Parse ==
    /\ pc = "call"
    /\ ret' = parse(args.exists, args.readable, args.document, args.failing)
    /\ raised' = ret'.raised
    /\ pc' = "ret"
    /\ UNCHANGED <<environ, min_salary, target_location, resume_text, jobs, jobs_in,
                   filtered_jobs, keyword_calls, args>>

NextParse == Parse

SpecParse == InitParse /\ [][NextParse]_vars

\* the text of the document of a state as parse hands it to the sub-extractors
ParsedText == extract_text(args.document)

\* the search of _extract_contact_info that fills a field
ContactStep ==
    [email |-> 1, phone |-> 2, linkedin |-> 3, github |-> 4, portfolio |-> 5]

\* C22: in ResumeParser.parse a failure inside any sub-extractor (contact info, skills,
\* education, experience) never propagates: that sub-extractor returns its empty default
\* (contact fields found before the failure are kept) and the other fields of the record
\* are still produced; parse raises only when the file is missing or its text cannot be
\* extracted.
C22_FailuresContained ==
    pc = "ret" =>
        /\ raised # "none" <=> (~args.exists \/ ~args.readable)
        /\ ~args.exists => raised = "FileNotFoundError"
        /\ raised = "none" =>
              LET failing == args.failing
                  found == extract_contact_info(ParsedText, 0)
              IN  /\ DOMAIN ret.result =
                        {"contact_info", "skills", "education", "experience", "raw_text"}
                  /\ ret.result.raw_text = ParsedText
                  /\ ret.result.skills = IF failing.skills THEN <<>>
                                  ELSE parser_extract_skills(ParsedText)
                  /\ ret.result.education = IF failing.education THEN <<>>
                                     ELSE extract_education(ParsedText)
                  /\ ret.result.experience = IF failing.experience THEN <<>>
                                      ELSE extract_experience(ParsedText)
                  /\ ret.result.contact_info.name = <<>>
                  /\ \A field \in DOMAIN ContactStep :
                        ret.result.contact_info[field] =
                            IF failing.contact = 0 \/ ContactStep[field] < failing.contact
                            THEN found[field]
                            ELSE <<>>

\* the search for the LinkedIn address raised: the e-mail address and the phone number
\* found before are kept, the later fields are empty, and skills, education and
\* experience are produced
C22_Witness ==
    /\ pc = "ret"
    /\ raised = "none"
    /\ args.failing.contact = 3
    /\ ret.result.contact_info.email # <<>>
    /\ ret.result.contact_info.phone # <<>>
    /\ ret.result.contact_info.github = <<>>
    /\ extract_contact_info(ParsedText, 0).github # <<>>
    /\ ret.result.skills # <<>>
    /\ ret.result.education # <<>>
    /\ ret.result.experience # <<>>

\* the text that the claim has an extractor scan: the section of the document under one
\* of the headers, with its whitespace as parse hands it on, or the whole text when the
\* document has no such section
SectionOfDocument(section_names) ==
    LET section == extract_section(args.document, section_names)
    IN  IF section.found /\ section.text # <<>> THEN extract_text(section.text)
        ELSE ParsedText

\* parse has returned a record and nothing has raised in a sub-extractor
Parsed == pc = "ret" /\ raised = "none" /\ args.failing = NoFailure

\* C24: in ResumeParser.parse, when the resume document contains a skills (or education,
\* or experience) header on its own line, the corresponding extractor scans only the
\* text of that section, from the header up to the next section header, and scans the
\* whole text only when no such header exists.
C24_SectionScanned ==
    Parsed =>
        /\ ret.result.skills = ParserSkills(ParserTechSkills, SectionOfDocument(SkillsSectionNames))
        /\ ret.result.education = EducationOf(DegreePatterns, SectionOfDocument(EducationSectionNames))
        /\ ret.result.experience =
               ExperienceOf(JobPatterns, SectionOfDocument(ExperienceSectionNames))

\* what holds: _extract_text has replaced every line break by a space, so no extractor
\* finds a header in the text it is given, and each scans the whole text
C24_WholeTextScanned ==
    Parsed =>
        /\ ~extract_section(ParsedText, SkillsSectionNames).found
        /\ ~extract_section(ParsedText, EducationSectionNames).found
        /\ ~extract_section(ParsedText, ExperienceSectionNames).found
        /\ ret.result.skills = ParserSkills(ParserTechSkills, ParsedText)
        /\ ret.result.education = EducationOf(DegreePatterns, ParsedText)
        /\ ret.result.experience = ExperienceOf(JobPatterns, ParsedText)

-----------------------------------------------------------------------------
(* SkillExtractor._load_skill_patterns and the pattern pass over what it     *)
(* loaded: app/resume_processor/skill_extractor.py                           *)

\* the values json.load can return: a dict is a list of [key, value], a str is its
\* characters
JsonStr(s) == [type |-> "str", items |-> <<>>, text |-> Chars(s)]

JsonInt == [type |-> "int", items |-> <<>>, text |-> <<>>]

JsonList(items) == [type |-> "list", items |-> items, text |-> <<>>]

JsonDict(items) == [type |-> "dict", items |-> items, text |-> <<>>]

\* the dict that _load_skill_patterns builds when it loads nothing
DefaultPatternsDict ==
    JsonDict([c \in 1..Len(DefaultSkillPatterns) |->
                 [key |-> DefaultSkillPatterns[c].category,
                  value |-> JsonList([i \in 1..Len(DefaultSkillPatterns[c].patterns) |->
                                         JsonStr(DefaultSkillPatterns[c].patterns[i])])]])

\* SkillExtractor._load_skill_patterns: what json.load returned is handed on as it is;
\* a file that is missing or that json.load cannot read gives the default patterns
load_skill_patterns(file) ==
    IF file.exists /\ file.parses THEN file.json ELSE DefaultPatternsDict

\* "for pattern in patterns": the elements of a list, the keys of a dict, the characters
\* of a str; a number cannot be iterated
Iterated(patterns) ==
    IF patterns.type = "list" THEN [raised |-> "none", items |-> patterns.items]
    ELSE IF patterns.type = "dict"
    THEN [raised |-> "none",
          items |-> [i \in 1..Len(patterns.items) |-> JsonStr(patterns.items[i].key)]]
    ELSE IF patterns.type = "str"
    THEN [raised |-> "none",
          items |-> [i \in 1..Len(patterns.text) |-> JsonStr(patterns.text[i])]]
    ELSE [raised |-> "TypeError", items |-> <<>>]

\* the inner loop of _extract_skills_with_patterns: pattern.replace exists for a str only
LoadedCategorySkills(patterns, preprocessed_text) ==
    IF \E i \in 1..Len(patterns) : patterns[i].type # "str"
    THEN [raised |-> "AttributeError", skills |-> <<>>]
    ELSE LET found == SelectSeq(patterns,
                                LAMBDA pattern :
                                    re_search(RegexOf(search_pattern(pattern.text)),
                                              preprocessed_text))
         IN  [raised |-> "none",
              skills |-> [i \in 1..Len(found) |-> format_skill_name(found[i].text)]]

\* the outer loop of _extract_skills_with_patterns over the items of a dict
LoadedPatternSkills(items, preprocessed_text) ==
    LET found == [i \in 1..Len(items) |->
                     IF Iterated(items[i].value).raised # "none"
                     THEN [raised |-> Iterated(items[i].value).raised, skills |-> <<>>,
                           category |-> items[i].key]
                     ELSE [category |-> items[i].key] @@
                          LoadedCategorySkills(Iterated(items[i].value).items,
                                               preprocessed_text)]
        failed == {i \in 1..Len(items) : found[i].raised # "none"}
    IN  IF failed # {}
        THEN [raised |-> found[Least(failed)].raised, skills |-> <<>>]
        ELSE [raised |-> "none",
              skills |-> SelectSeq([i \in 1..Len(items) |->
                                       [category |-> found[i].category,
                                        skills |-> found[i].skills]],
                                   LAMBDA category_skills : category_skills.skills # <<>>)]

\* _extract_skills_with_patterns for self.skill_patterns as loaded: only a dict has items()
extract_skills_with_loaded(skill_patterns, preprocessed_text) ==
    IF skill_patterns.type # "dict" THEN [raised |-> "AttributeError", skills |-> <<>>]
    ELSE LoadedPatternSkills(skill_patterns.items, preprocessed_text)

\* extract_skills of an extractor without the spaCy model, for self.skill_patterns as
\* loaded: the exception that escapes, or the result
extract_skills_loaded(skill_patterns, text) ==
    IF text = <<>> THEN [raised |-> "none", result |-> EmptyDict]
    ELSE LET preprocessed_text == preprocess_text(text)
             found == extract_skills_with_loaded(skill_patterns, preprocessed_text)
         IN  IF found.raised # "none" THEN [raised |-> found.raised, result |-> EmptyDict]
             ELSE [raised |-> "none",
                   result |->
                       [skill_categories |-> found.skills,
                        all_skills |-> Flatten(found.skills),
                        skill_frequencies |->
                            calculate_skill_frequencies(found.skills, preprocessed_text)]]

\* app/data/skill_patterns.json: missing, not JSON, or JSON of some shape
NoJson == JsonList(<<>>)

PythonAndGo == JsonList(<<JsonStr("python"), JsonStr("go")>>)

PatternFiles ==
    <<[exists |-> FALSE, parses |-> FALSE, json |-> NoJson],
      [exists |-> TRUE, parses |-> FALSE, json |-> NoJson],
      [exists |-> TRUE, parses |-> TRUE,
       json |-> JsonDict(<<[key |-> "languages", value |-> PythonAndGo]>>)],
      [exists |-> TRUE, parses |-> TRUE, json |-> JsonDict(<<>>)],
      [exists |-> TRUE, parses |-> TRUE, json |-> PythonAndGo],
      [exists |-> TRUE, parses |-> TRUE, json |-> JsonStr("python")],
      [exists |-> TRUE, parses |-> TRUE, json |-> JsonInt],
      [exists |-> TRUE, parses |-> TRUE,
       json |-> JsonDict(<<[key |-> "languages", value |-> JsonInt]>>)],
      [exists |-> TRUE, parses |-> TRUE,
       json |-> JsonDict(<<[key |-> "languages", value |-> JsonStr("python")]>>)],
      [exists |-> TRUE, parses |-> TRUE,
       json |-> JsonDict(<<[key |-> "languages",
                            value |-> JsonList(<<JsonStr("python"), JsonInt>>)]>>)],
      [exists |-> TRUE, parses |-> TRUE,
       json |-> JsonDict(<<[key |-> "languages",
                            value |-> JsonList(<<PythonAndGo>>)]>>)]>>

\* a file is well-formed when it is a mapping from categories to lists of patterns
RECURSIVE AllOfType(_, _)
AllOfType(items, type) ==
    items = <<>> \/ (items[1].type = type /\ AllOfType(Tail(items), type))

IsTaxonomy(json) ==
    /\ json.type = "dict"
    /\ \A i \in 1..Len(json.items) :
          /\ json.items[i].value.type = "list"
          /\ AllOfType(json.items[i].value.items, "str")

\* the texts of the calls of extract_skills
TaxonomyTexts ==
    {<<>>, Chars("Python"), Chars("go and sql"), Chars("Docker, react"), Chars("p y")}

InitTaxonomy ==
    /\ pc = "start"
    /\ IdleFilter
    /\ min_salary = ParseInt(DefaultPayGradeMin).value
    /\ target_location = DefaultLocation
    /\ \E f \in 1..Len(PatternFiles), first \in TaxonomyTexts, second \in TaxonomyTexts :
          args = [file |-> PatternFiles[f], texts |-> <<first, second>>]
    /\ ret = None

\* SkillExtractor()
SkillExtractorInit ==
    /\ pc = "start"
    /\ ret' = [skill_patterns |-> load_skill_patterns(args.file), calls |-> <<>>]
    /\ pc' = "ready"
    /\ UNCHANGED <<environ, min_salary, target_location, resume_text, jobs, jobs_in,
                   filtered_jobs, keyword_calls, raised, args>>

\* skill_extractor.extract_skills(text), for the texts in turn
ExtractWithLoaded ==
    /\ pc = "ready"
    /\ Len(ret.calls) < Len(args.texts)
    /\ ret' = [ret EXCEPT !.calls =
                  Append(@, extract_skills_loaded(ret.skill_patterns,
                                                  args.texts[Len(ret.calls) + 1]))]
    /\ UNCHANGED <<pc, environ, min_salary, target_location, resume_text, jobs, jobs_in,
                   filtered_jobs, keyword_calls, raised, args>>

NextTaxonomy == SkillExtractorInit \/ ExtractWithLoaded

SpecTaxonomy == InitTaxonomy /\ [][NextTaxonomy]_vars

\* the file of a state is missing or malformed
TaxonomyLoadDegraded ==
    ~args.file.exists \/ ~args.file.parses \/ ~IsTaxonomy(args.file.json)

\* the results that the extractor with the default patterns gives for the texts called
\* with so far
DefaultResults ==
    [i \in 1..Len(ret.calls) |-> CHOOSE r \in extract_skills(args.texts[i], FALSE, NoDoc) : TRUE]

\* C23: when the external taxonomy file is missing or malformed (unparseable, or
\* parseable JSON that is not a mapping from category to a list of patterns),
\* SkillExtractor uses the built-in default taxonomy and every later extract_skills call
\* completes without failing.
C23_DegradedLoadFallsBack ==
    (pc = "ready" /\ TaxonomyLoadDegraded) =>
        /\ ret.skill_patterns = DefaultPatternsDict
        /\ \A i \in 1..Len(ret.calls) :
              /\ ret.calls[i].raised = "none"
              /\ ret.calls[i].result = DefaultResults[i]

\* what holds: a file that is missing or that json.load cannot read gives the default
\* taxonomy, and every call completes with the result of the default patterns
C23_MissingOrUnparseable ==
    (pc = "ready" /\ (~args.file.exists \/ ~args.file.parses)) =>
        /\ ret.skill_patterns = DefaultPatternsDict
        /\ \A i \in 1..Len(ret.calls) :
              /\ ret.calls[i].raised = "none"
              /\ ret.calls[i].result = DefaultResults[i]

-----------------------------------------------------------------------------
(* ResumeAnalyzer.match_job                                                *)

\* the names bound at module level in analyzer.py
AnalyzerGlobals ==
    {"os", "tempfile", "textract", "setup_logger", "load_config", "generate_text",
     "ResumeParser", "SkillExtractor", "logger", "config", "ResumeAnalyzer"}

\* the names match_job binds before it builds its result: its parameters and the names
\* it assigns to
MatchJobLocals ==
    {"self", "resume_data", "job_description", "skills", "raw_text", "skill_analysis",
     "comparison", "match_percentage", "matching_skills", "missing_skills",
     "category_breakdown", "category", "data", "match_prompt", "ai_insights"}

\* the names the branch of a non-empty ai_insights reads
InsightBranchNames == {"logger", "match_evaluation"}

\* reading a name that is bound nowhere raises NameError
NameErrors(names) == names \ (MatchJobLocals \cup AnalyzerGlobals)

\* what generate_text(match_prompt, return_json=True) can return: None, or the object
\* json.loads made of the reply, which may be empty
AiInsights ==
    <<[json |-> FALSE, keys |-> {}],
      [json |-> TRUE, keys |-> {}],
      [json |-> TRUE, keys |-> {"explanation"}],
      [json |-> TRUE, keys |-> {"qualitative_assessment", "suggestions", "explanation"}]>>

\* if ai_insights:
Truthy(ai_insights) == ai_insights.json /\ ai_insights.keys # {}

\* the record of the handler: except Exception as e
ExceptionFallback(e) ==
    [score |-> 0, matching_keywords |-> <<>>, missing_keywords |-> <<>>, explanation |-> e]

\* the record of the else branch
BasicMatch ==
    [score |-> 50, matching_keywords |-> <<>>, missing_keywords |-> <<>>,
     explanation |-> "Failed to generate detailed match evaluation"]

\* the category breakdown: the categories with something matching or missing
CategoryBreakdown(comparison) ==
    LET categories == DictGet(comparison, "categories", <<>>)
    IN  {category \in DOMAIN categories :
            categories[category].matching # {} \/ categories[category].missing # {}}

\* match_job once extract_and_compare has returned skill_analysis and generate_text
\* has returned ai_insights
match_job(skill_analysis, ai_insights) ==
    LET comparison == DictGet(skill_analysis, "comparison", <<>>)
        category_breakdown == CategoryBreakdown(comparison)
    IN  IF Truthy(ai_insights)
        THEN IF NameErrors(InsightBranchNames) # {}
             THEN ExceptionFallback("NameError")
             ELSE [score |-> 0, matching_keywords |-> <<>>, missing_keywords |-> <<>>,
                   explanation |-> ""]
        ELSE BasicMatch

InitMatch == InitSkills

\* self.match_job(resume_data, job_description), with the skill analysis of
\* extract_and_compare and the reply of generate_text
MatchJob ==
    /\ pc = "start"
    /\ \E resume_skills \in extract_skills(args.resume_text, args.nlp, args.resume_doc),
          job_skills \in extract_skills(args.job_text, args.nlp, args.job_doc),
          i \in 1..Len(AiInsights) :
          LET skill_analysis == [resume_skills |-> resume_skills, job_skills |-> job_skills,
                                 comparison |-> compare_skills(resume_skills, job_skills)]
          IN  ret' = [ai_insights |-> AiInsights[i],
                      match_percentage |-> skill_analysis.comparison.match_percentage,
                      result |-> match_job(skill_analysis, AiInsights[i])]
    /\ pc' = "matched"
    /\ UNCHANGED <<environ, min_salary, target_location, resume_text, jobs, jobs_in,
                   filtered_jobs, keyword_calls, raised, args>>

NextMatch == MatchJob

SpecMatch == InitMatch /\ [][NextMatch]_vars

\* C26: match_job returns match results computed from the resume and the job
\* description: when the AI insight call returns a non-empty result, the returned record
\* is built from the evaluation without an internal error, not the exception fallback
\* (score 0, empty keyword lists, an error message as explanation).
C26_BuiltFromEvaluation ==
    pc = "matched" /\ Truthy(ret.ai_insights)
        => ret.result # ExceptionFallback("NameError")

\* what holds: a non-empty reply always ends in the handler, whatever the skills of the
\* resume and of the job are, and an empty reply or None gives the basic match of 50
C26_InsightsEndInHandler ==
    pc = "matched"
        => ret.result = IF Truthy(ret.ai_insights) THEN ExceptionFallback("NameError")
                        ELSE BasicMatch

-----------------------------------------------------------------------------
(* filter_jobs_with_resume                                                  *)

\* a handler that returns no posting
ReturnNoJobs(batch) == <<>>

\* return jobs, of the handler and of the empty resume text
ReturnAllJobs(batch) == batch

\* the handler of filter_jobs_with_resume: the exception e is logged and every job of
\* the batch, as it is by then, is returned
Caught(e, batch_now, text) ==
    [raised |-> "none", caught |-> e, resume_text |-> text,
     jobs |-> batch_now, filtered_jobs |-> ReturnAllJobs(batch_now)]

\* the return of filter_jobs_with_resume once job_filter.filter_jobs has run
FilterReturn(text, r) ==
    IF r.raised # "none" THEN Caught(r.raised, r.jobs, text)
    ELSE [raised |-> "none", caught |-> "none", resume_text |-> text, jobs |-> r.jobs,
          filtered_jobs |-> r.filtered_jobs]

\* JobFilter() has been constructed: job_filter.filter_jobs(jobs, resume_text)
FilterWith(batch, text, job_filter) ==
    IF job_filter.raised # "none" THEN Caught(job_filter.raised, batch, text)
    ELSE CHOOSE outcome \in {FilterReturn(text, r) :
                                r \in {filter_jobs(batch, text, job_filter.min_salary,
                                                   job_filter.target_location)}} : TRUE

\* the resume text has been read: without text every job is returned, otherwise the
\* filter is constructed and applied
FilterWithText(batch, text, env) ==
    IF text = <<>>
    THEN [raised |-> "none", caught |-> "none", resume_text |-> text,
          jobs |-> batch, filtered_jobs |-> ReturnAllJobs(batch)]
    ELSE CHOOSE outcome \in {FilterWith(batch, text, job_filter) :
                                job_filter \in {JobFilter_init(env)}} : TRUE

\* filter_jobs_with_resume from the outcome of parser.parse on: the returned list, the
\* batch after the call, the exception that escaped, the exception the handler caught,
\* and the text read from the resume
FilterParsed(batch, resume_data, env) ==
    IF resume_data.raised # "none" THEN Caught(resume_data.raised, batch, <<>>)
    ELSE CHOOSE outcome \in {FilterWithText(batch, text, env) :
                                text \in {DictGet(resume_data.result, "raw_text", <<>>)}} :
             TRUE

\* filter_jobs_with_resume(jobs, resume_path); the resume is parsed once
filter_jobs_with_resume(batch, exists, readable, document, env) ==
    CHOOSE outcome \in {FilterParsed(batch, resume_data, env) :
                           resume_data \in {parse(exists, readable, document, NoFailure)}} :
        TRUE

\* JobData.__init__ with the arguments the scanners pass; date_found is the day of the scan
JobData(id, title, company, location, description, url, source, date_found, status, score) ==
    [id |-> id, title |-> title, company |-> company, location |-> location,
     description |-> description, url |-> url, source |-> source,
     date_found |-> date_found, status |-> status, matching_score |-> score]

\* a to_dict that also writes a salary
to_dict_with_salary(self) ==
    [k \in {"id", "title", "company", "location", "description", "url", "source",
            "date_found", "status", "matching_score", "salary"} |->
        IF k = "salary" THEN SalaryHigh ELSE self[k]]

\* JobData.to_dict: the ten keys of a posting; salary is not among them
to_dict(self) ==
    [k \in {"id", "title", "company", "location", "description", "url", "source",
            "date_found", "status", "matching_score"} |-> self[k]]

\* what a scanner reads of a posting: description and location, each possibly empty
ScannedDescriptions == {<<>>, DescMySQL, Chars("Java"), Chars("SQL on AWS, $120,000")}

ScannedLocations == {<<>>, LocationNY, LocationRemote}

ScannedBodies == ScannedDescriptions \X ScannedLocations

\* jobs.append(job_data.to_dict()) for the posting at position i of a scan
ScannedJob(i, body) ==
    to_dict(JobData(100 + i, Chars("Developer"), Chars("Acme"), body[2], body[1],
                    Chars("https://example.com/jobs"), Chars("Indeed"),
                    Chars("2024-01-01"), Chars("Not Applied"), 50))

ScanOf(bodies) == [i \in 1..Len(bodies) |-> ScannedJob(i, bodies[i])]

\* the documents of a resume: nothing, white space only, and two short texts
ResumeFiles ==
    {<<>>, Chars(" \n"), Chars("The\nSQL."), Chars("sql  aws\n")}

InitResume ==
    /\ pc = "call"
    /\ environ \in FilterEnvirons
    /\ min_salary = None
    /\ target_location = None
    /\ resume_text = <<>>
    /\ \E n \in 0..MaxBatch : \E bodies \in [1..n -> ScannedBodies] : jobs = ScanOf(bodies)
    /\ jobs_in = <<>>
    /\ filtered_jobs = <<>>
    /\ keyword_calls = 0
    /\ raised = "none"
    /\ \E document \in ResumeFiles, exists \in BOOLEAN, readable \in BOOLEAN :
          /\ ~exists => readable /\ document = <<>>
          /\ ~readable => document = <<>>
          /\ args = [exists |-> exists, readable |-> readable, document |-> document]
    /\ ret = None

\* filtered_jobs = filter_jobs_with_resume(all_jobs, resume_path)
FilterJobsWithResume ==
    /\ pc = "call"
    /\ ret' = filter_jobs_with_resume(jobs, args.exists, args.readable, args.document,
                                      environ)
    /\ jobs_in' = jobs
    /\ jobs' = ret'.jobs
    /\ filtered_jobs' = ret'.filtered_jobs
    /\ resume_text' = ret'.resume_text
    /\ raised' = ret'.raised
    /\ pc' = "done"
    /\ UNCHANGED <<environ, min_salary, target_location, keyword_calls, args>>

NextResume == FilterJobsWithResume

SpecResume == InitResume /\ [][NextResume]_vars

\* the resume of a state cannot be parsed, or the filter cannot be built from the
\* configuration of the state
ParsingFails == ~args.exists \/ ~args.readable

FilterFails == ~ParseInt(ConfiguredPay).ok

\* C27: filter_jobs_with_resume never raises and never drops postings because of a
\* failure: when resume parsing or filtering raises, or the resume text is empty, it
\* returns the input job list unchanged; otherwise it returns exactly the result of
\* JobFilter.filter_jobs.
C27_FailuresKeepAllJobs ==
    pc = "done" =>
        LET text == extract_text(args.document)
        IN  /\ raised = "none"
            /\ ret.caught # "none" <=> ParsingFails \/ (text # <<>> /\ FilterFails)
            /\ IF ParsingFails \/ FilterFails \/ text = <<>>
               THEN filtered_jobs = jobs_in /\ jobs = jobs_in
               ELSE LET config == load_config(environ)
                    IN  filtered_jobs =
                            filter_jobs(jobs_in, text,
                                        ParseInt(config.TARGET_PAY_GRADE_MIN).value,
                                        config.TARGET_LOCATION).filtered_jobs

\* the filter could not be built for a resume with text, and both postings of the batch
\* came back, one of which the filter would have rejected
C27_Witness ==
    /\ pc = "done"
    /\ ret.caught = "ValueError"
    /\ resume_text # <<>>
    /\ Len(filtered_jobs) = 2
    /\ \E k \in 1..2 : ~Has(filtered_jobs[k], "description")
                         /\ ~Has(filtered_jobs[k], "salary")

\* the filter ran over the scanned postings
ScanFiltered == pc = "done" /\ ret.caught = "none" /\ resume_text # <<>>

\* the location the filter of the state was built with
ConfiguredLocation == load_config(environ).TARGET_LOCATION

\* the keyword score of a posting is above 0.5
StrongMatch(job) ==
    Has(job, "description") /\ ScoreAbove(KeywordScoreOf(job, ResumeKeywords), 5, 10)

\* C30: for every posting produced by a scanner through JobData.to_dict (which has no
\* salary field), filter_jobs never awards the salary point: such a posting has
\* filter_match_score <= 2 and is accepted if and only if it earns both the keyword and
\* the location point, or its keyword_score is > 0.5.
C30_NoSalaryPointForScanned ==
    ScanFiltered =>
        \A i \in 1..Len(jobs_in) :
            LET job == jobs_in[i]
            IN  /\ "salary" \notin DOMAIN job
                /\ IsReturned(i) <=>
                      \/ KeywordPoint(job, ResumeKeywords)
                            /\ LocationPoint(job, ConfiguredLocation)
                      \/ StrongMatch(job)
                /\ IsReturned(i) =>
                      /\ jobs[i].filter_match_score <= 2
                      /\ ~HasReasonFor("salary", jobs[i].filter_match_reasons)

\* a scanned posting with the keyword point alone was rejected, and one whose description
\* names a salary above the minimum was accepted with two points
C30_Witness ==
    /\ ScanFiltered
    /\ \E i \in 1..Len(jobs_in) :
          ~IsReturned(i) /\ KeywordPoint(jobs_in[i], ResumeKeywords)
    /\ \E i \in 1..Len(jobs_in) :
          /\ IsReturned(i)
          /\ jobs[i].filter_match_score = 2
          /\ check_salary_match(jobs_in[i].description,
                                ParseInt(ConfiguredPay).value)

=============================================================================
